---------------------------- MODULE Spec2Model ----------------------------
(***************************************************************************)
(* Burrow DED corpus builder (burrow_corpus_scraper.py), entry parser      *)
(* (burrow_entry_parser.py), language mappings                             *)
(* (burrow_language_mappings.py) and the cross-validation workflow         *)
(* (burrow_enhanced_validation.py).                                        *)
(*                                                                         *)
(* A Python str is a sequence of characters; a character is a one-element  *)
(* token.  ASCII characters stand for themselves, a precomposed letter is  *)
(* written base/mark ("n/macron_below" is U+1E49) and a combining mark is  *)
(* written /mark.  An Optional value is <<>> (None) or <<x>>.              *)
(***************************************************************************)
EXTENDS Integers, Sequences, FiniteSets, Bags, TLC

VARIABLES
    \* BurrowCorpusScraper
    entries,            \* self.entries
    completed_pages,    \* self.completed_pages
    corpus_file,        \* contents of burrow_corpus.json
    checkpoint_file,    \* contents of burrow_corpus_checkpoint.json
    pc,                 \* position of the builder process
    page,               \* loop variable of scrape_all
    attempt,            \* loop variable of fetch_with_retry
    response,           \* the response scrape_page holds
    restarts,           \* history: processes started after an interruption
    interrupted_in_page,\* history: a process was stopped inside scrape_page
    skipped_pages,      \* history: pages this process skipped as completed
    failed_pages,       \* history: pages this process gave up fetching
    \* EnhancedValidationWorkflow
    corpus_entries_by_ded,
    corpus_attestations_by_headword,
    corpus_loaded,
    cache,              \* self.cache
    corpus_doc,         \* the document given to load_burrow_corpus
    epc,                \* position of main before validate_all
    validation,         \* result of the last validate_entry, <<>> before
    row,                \* the row of the last validate_entry, <<>> before
    wpc,                \* position of the workflow process
    validation_results, \* self.validation_results
    validation_checkpoint, \* contents of validation_checkpoint.json
    results_file,       \* contents of enhanced_validation_results.json
    batch_start,        \* loop variable of validate_all
    batch_pos,          \* loop variable of validate_batch
    wrestarts,          \* history: workflow processes started after an interruption
    resumed_at,         \* history: the start index of the running validate_all
    \* A function called on its own
    call                \* the last call: [fn, args, result], <<>> before

builderVars == <<entries, completed_pages, corpus_file, checkpoint_file, pc,
                 page, attempt, response, restarts, interrupted_in_page,
                 skipped_pages, failed_pages>>
engineVars == <<corpus_entries_by_ded, corpus_attestations_by_headword,
                corpus_loaded, cache, corpus_doc, epc, validation, row>>
passVars == <<wpc, validation_results, validation_checkpoint, results_file,
              batch_start, batch_pos, wrestarts, resumed_at>>
vars == <<builderVars, engineVars, passVars, call>>

None == <<>>
Some(x) == <<x>>

\* The set of the elements of a sequence
Range(s) == {s[i] : i \in 1..Len(s)}


\* Program constants
MinOverlap == 4
GlossLimit == 200
MinWordLen == 3
max_retries == 3

\* Bounds of the model
NumPages == 3
MaxRestarts == 1
MaxPassRestarts == 2
MaxDocEntries == 2
NumRows == 5
BatchSize == 2
MaxTextLen == 3
MaxDivs == 3
MaxMarkers == 3

(***************************************************************************)
(* Character tables: str.lower(), Unicode NFKD and unicodedata.combining   *)
(* on the characters that occur in the tables and the inputs below.        *)
(***************************************************************************)
LowerChar(c) ==
    CASE c = "A" -> "a"
      [] c = "B" -> "b"
      [] c = "C" -> "c"
      [] c = "D" -> "d"
      [] c = "F" -> "f"
      [] c = "G" -> "g"
      [] c = "I" -> "i"
      [] c = "K" -> "k"
      [] c = "L" -> "l"
      [] c = "M" -> "m"
      [] c = "N" -> "n"
      [] c = "O" -> "o"
      [] c = "P" -> "p"
      [] c = "R" -> "r"
      [] c = "S" -> "s"
      [] c = "T" -> "t"
      [] c = "W" -> "w"
      [] c = "Y" -> "y"
      [] c = "A/macron" -> "a/macron"
      [] OTHER -> c

NFKDChar(c) ==
    CASE c = "e/grave_accent" -> <<"e", "/grave_accent">>
      [] c = "A/macron" -> <<"A", "/macron">>
      [] c = "a/macron" -> <<"a", "/macron">>
      [] c = "o/macron" -> <<"o", "/macron">>
      [] c = "d/dot_below" -> <<"d", "/dot_below">>
      [] c = "l/dot_below" -> <<"l", "/dot_below">>
      [] c = "n/macron_below" -> <<"n", "/macron_below">>
      [] c = "r/macron_below" -> <<"r", "/macron_below">>
      [] c = "t/dot_below" -> <<"t", "/dot_below">>
      [] c = "U+211D" -> <<"R">>
      [] c = "U+2474" -> <<"(", "1", ")">>
      [] OTHER -> <<c>>

CombiningChars == {"/grave_accent", "/macron", "/dot_below", "/macron_below"}

(***************************************************************************)
(* Python str methods used by the code.                                    *)
(***************************************************************************)
Whitespace == {" "}

Lower(s) == [i \in 1..Len(s) |-> LowerChar(s[i])]

\* s.replace(c, "")
Remove(s, c) == SelectSeq(s, LAMBDA x : x # c)

\* s.replace(c, d) for single characters c, d
Replace(s, c, d) == [i \in 1..Len(s) |-> IF s[i] = c THEN d ELSE s[i]]

RECURSIVE LStrip(_)
LStrip(s) == IF s # <<>> /\ Head(s) \in Whitespace THEN LStrip(Tail(s)) ELSE s

RECURSIVE RStrip(_)
RStrip(s) ==
    IF s # <<>> /\ s[Len(s)] \in Whitespace
    THEN RStrip(SubSeq(s, 1, Len(s) - 1)) ELSE s

\* s.strip()
Strip(s) == RStrip(LStrip(s))

\* a in b
IsSubstring(a, b) ==
    \E i \in 0..(Len(b) - Len(a)) : SubSeq(b, i + 1, i + Len(a)) = a

\* a.startswith(b)
StartsWith(a, b) == Len(b) <= Len(a) /\ SubSeq(a, 1, Len(b)) = b

RECURSIVE Concat(_)
Concat(ss) == IF ss = <<>> THEN <<>> ELSE Head(ss) \o Concat(Tail(ss))

\* unicodedata.normalize("NFKD", s)
NFKD(s) == Concat([i \in 1..Len(s) |-> NFKDChar(s[i])])

\* " ".join(s.split())
RECURSIVE CollapseWs(_)
CollapseWs(s) ==
    LET t == LStrip(s) IN
    IF t = <<>> THEN <<>>
    ELSE LET n == CHOOSE k \in 1..Len(t) :
                    /\ \A j \in 1..k : t[j] \notin Whitespace
                    /\ (k = Len(t) \/ t[k + 1] \in Whitespace)
             rest == CollapseWs(SubSeq(t, n + 1, Len(t)))
         IN IF rest = <<>> THEN SubSeq(t, 1, n)
            ELSE SubSeq(t, 1, n) \o <<" ">> \o rest

\* s.split(c): the pieces between occurrences of the character c
RECURSIVE Split(_, _)
Split(s, c) ==
    IF \A i \in 1..Len(s) : s[i] # c THEN <<s>>
    ELSE LET n == CHOOSE k \in 1..Len(s) :
                    s[k] = c /\ \A j \in 1..(k - 1) : s[j] # c
         IN <<SubSeq(s, 1, n - 1)>> \o Split(SubSeq(s, n + 1, Len(s)), c)


(***************************************************************************)
(* burrow_language_mappings.py                                             *)
(***************************************************************************)
BURROW_TO_STARLING ==
    << <<<<"A/macron", "l", "K", "u", ".">>, <<"A/macron", "l", "u", " ", "K", "u", "r/macron_below", "u", "m", "b", "a">>>>,
       <<<<"B", "e", "l", ".">>, <<"B", "e", "l", "a", "r", "i">>>>,
       <<<<"B", "r", ".">>, <<"B", "r", "a", "h", "u", "i">>>>,
       <<<<"D", "r", ".">>, <<"P", "r", "o", "t", "o", "-", "D", "r", "a", "v", "i", "d", "i", "a", "n">>>>,
       <<<<"P", "D", "r", ".">>, <<"P", "r", "o", "t", "o", "-", "D", "r", "a", "v", "i", "d", "i", "a", "n">>>>,
       <<<<"G", "a", ".">>, <<"G", "a", "d", "b", "a">>>>,
       <<<<"G", "o", ".">>, <<"G", "o", "n", "d", "i">>>>,
       <<<<"I", "r", ".">>, <<"I", "r", "u", "l/dot_below", "a">>>>,
       <<<<"K", "a", ".">>, <<"K", "a", "n", "n", "a", "d", "a">>>>,
       <<<<"K", "o", ".">>, <<"K", "o", "t", "a">>>>,
       <<<<"K", "o", "d/dot_below", ".">>, <<"K", "o", "d", "a", "g", "u">>>>,
       <<<<"K", "o", "l", ".">>, <<"K", "o", "l", "a", "m", "i">>>>,
       <<<<"K", "o", "r", ".">>, <<"K", "o", "r", "a", "g", "a">>>>,
       <<<<"K", "u", "r", ".">>, <<"K", "u", "r", "u", "k", "h">>>>,
       <<<<"K", "u", "r", "u", "b", ".">>, <<"B", "e", "t/dot_below", "t/dot_below", "a", " ", "K", "u", "r", "u", "b", "a">>>>,
       <<<<"M", "a", ".">>, <<"M", "a", "l", "a", "y", "a", "l", "a", "m">>>>,
       <<<<"M", "a", "l", "t", ".">>, <<"M", "a", "l", "t", "o">>>>,
       <<<<"M", "a", "n", "d/dot_below", ".">>, <<"M", "a", "n", "d", "a">>>>,
       <<<<"N", "k", ".">>, <<"N", "a", "i", "k", "r", "i">>>>,
       <<<<"N", "k", ".", " ", "(", "C", "h", ".", ")">>, <<"N", "a", "i", "k", "i">>>>,
       <<<<"P", "a", ".">>, <<"P", "a", "r", "j", "i">>>>,
       <<<<"P", "a/macron", "l", "K", "u", ".">>, <<"P", "a/macron", "l", "u", " ", "K", "u", "r/macron_below", "u", "m", "b", "a">>>>,
       <<<<"P", "e", ".">>, <<"P", "e", "n", "g", "o">>>>,
       <<<<"T", "a", ".">>, <<"T", "a", "m", "i", "l">>>>,
       <<<<"T", "e", ".">>, <<"T", "e", "l", "u", "g", "u">>>>,
       <<<<"T", "o", ".">>, <<"T", "o", "d", "a">>>>,
       <<<<"T", "u", ".">>, <<"T", "u", "l", "u">>>>,
       <<<<"K", "o", "n", "d/dot_below", "a">>, <<"K", "o", "n", "d", "a">>>>,
       <<<<"K", "u", "i">>, <<"K", "u", "i">>>>,
       <<<<"K", "u", "w", "i">>, <<"K", "u", "w", "i", " ", "(", "S", "c", "h", "u", "l", "z", "e", ")">>>> >>

STARLING_VARIANTS ==
    << [base |-> <<"G", "o", "n", "d", "i">>,
        variants |-> << <<"K", "o", "y", "a", " ", "G", "o", "n", "d", "i">>,
                      <<"M", "u", "r", "i", "a", " ", "G", "o", "n", "d", "i">>,
                      <<"M", "a", "r", "i", "a", " ", "G", "o", "n", "d", "i">>,
                      <<"B", "e", "t", "u", "l", " ", "G", "o", "n", "d", "i">>,
                      <<"A", "d", "i", "l", "a", "b", "a", "d", " ", "G", "o", "n", "d", "i">>,
                      <<"M", "a", "n", "d", "l", "a", " ", "G", "o", "n", "d", "i", " ", "(", "P", "h", "a", "i", "l", "b", "u", "s", ")">>,
                      <<"M", "a", "r", "i", "a", " ", "G", "o", "n", "d", "i", " ", "(", "M", "i", "t", "c", "h", "e", "l", "l", ")">>,
                      <<"M", "a", "n", "d", "l", "a", " ", "G", "o", "n", "d", "i", " ", "(", "W", "i", "l", "l", "i", "a", "m", "s", "o", "n", ")">>,
                      <<"S", "e", "o", "n", "i", " ", "G", "o", "n", "d", "i">>,
                      <<"G", "o", "m", "m", "u", " ", "G", "o", "n", "d", "i">>,
                      <<"Y", "e", "o", "t", "m", "a", "l", " ", "G", "o", "n", "d", "i">>,
                      <<"C", "h", "i", "n", "d", "w", "a", "r", "a", " ", "G", "o", "n", "d", "i">>,
                      <<"D", "u", "r", "g", " ", "G", "o", "n", "d", "i">>,
                      <<"C", "h", "a", "n", "d", "a", " ", "G", "o", "n", "d", "i">>,
                      <<"M", "a", "n", "d", "l", "a", " ", "G", "o", "n", "d", "i">>,
                      <<"M", "a", "r", "i", "a", " ", "G", "o", "n", "d", "i", " ", "(", "L", "i", "n", "d", ")">>,
                      <<"M", "a", "r", "i", "a", " ", "G", "o", "n", "d", "i", " ", "(", "S", "m", "i", "t", "h", ")">> >>],
       [base |-> <<"G", "a", "d", "b", "a">>,
        variants |-> << <<"S", "a", "l", "u", "r", " ", "G", "a", "d", "b", "a">>,
                      <<"O", "l", "l", "a", "r", "i", " ", "G", "a", "d", "b", "a">>,
                      <<"K", "o", "n", "d", "e", "k", "o", "r", " ", "G", "a", "d", "b", "a">>,
                      <<"P", "o", "y", "a", " ", "G", "a", "d", "b", "a">> >>],
       [base |-> <<"K", "u", "w", "i">>,
        variants |-> << <<"K", "u", "w", "i", " ", "(", "S", "c", "h", "u", "l", "z", "e", ")">>,
                      <<"K", "u", "w", "i", " ", "(", "F", "i", "t", "z", "g", "e", "r", "a", "l", "d", ")">>,
                      <<"K", "u", "w", "i", " ", "(", "I", "s", "r", "a", "e", "l", ")">>,
                      <<"S", "u", "n", "k", "a", "r", "a", "m", "e", "t", "t", "a", " ", "K", "u", "w", "i">>,
                      <<"K", "u", "w", "i", " ", "(", "M", "a", "h", "a", "n", "t", "i", ")">>,
                      <<"T", "e", "k", "r", "i", "y", "a", " ", "K", "u", "w", "i">>,
                      <<"D", "o", "n", "g", "r", "i", "y", "a", " ", "K", "u", "w", "i">>,
                      <<"P", "a", "r", "j", "a", " ", "K", "u", "w", "i">> >>],
       [base |-> <<"K", "o", "l", "a", "m", "i">>,
        variants |-> << <<"K", "i", "n", "w", "a", "t", " ", "K", "o", "l", "a", "m", "i">>,
                      <<"K", "o", "l", "a", "m", "i", " ", "(", "S", "e", "t", "u", "m", "a", "d", "h", "a", "v", "a", " ", "R", "a", "o", ")">> >>],
       [base |-> <<"K", "o", "n", "d", "a">>,
        variants |-> << <<"K", "o", "n", "d", "a", " ", "(", "B", "u", "r", "r", "o", "w", "/", "B", "h", "a", "t", "t", "a", "c", "h", "a", "r", "y", "a", ")">> >>],
       [base |-> <<"K", "u", "i">>,
        variants |-> << <<"K", "h", "u", "t", "t", "i", "a", " ", "K", "u", "i">> >>],
       [base |-> <<"T", "e", "l", "u", "g", "u">>,
        variants |-> << <<"T", "e", "l", "u", "g", "u", " ", "(", "K", "r", "i", "s", "h", "n", "a", "m", "u", "r", "t", "i", ")">>,
                      <<"I", "n", "s", "c", "r", "i", "p", "t", "i", "o", "n", "a", "l", " ", "T", "e", "l", "u", "g", "u">>,
                      <<"M", "e", "r", "o", "l", "u", " ", "T", "e", "l", "u", "g", "u">>,
                      <<"P", "r", "o", "t", "o", "-", "T", "e", "l", "u", "g", "u">> >>] >>

\* d.get(k, default) for a dict d given as a sequence of <<key, value>> pairs
DictGet(d, k, default) ==
    IF \E i \in 1..Len(d) : d[i][1] = k
    THEN d[CHOOSE i \in 1..Len(d) : d[i][1] = k][2]
    ELSE default

normalize_language(burrow_abbrev) ==
    DictGet(BURROW_TO_STARLING, burrow_abbrev, burrow_abbrev)

InSeq(x, s) == \E i \in 1..Len(s) : s[i] = x

Min(a, b) == IF a <= b THEN a ELSE b

\* The loop without its second test (a variant against its base)
VariantGroupMatch_base_first(groups, normalized_burrow, starling_lang) ==
    \E g \in 1..Len(groups) :
       \/ normalized_burrow = groups[g].base /\ InSeq(starling_lang, groups[g].variants)
       \/ InSeq(normalized_burrow, groups[g].variants)
            /\ InSeq(starling_lang, groups[g].variants)

\* Lines 125-131: the loop over STARLING_VARIANTS.items()
VariantGroupMatch(groups, normalized_burrow, starling_lang) ==
    \E g \in 1..Len(groups) :
       \/ normalized_burrow = groups[g].base /\ InSeq(starling_lang, groups[g].variants)
       \/ InSeq(normalized_burrow, groups[g].variants) /\ starling_lang = groups[g].base
       \/ InSeq(normalized_burrow, groups[g].variants)
            /\ InSeq(starling_lang, groups[g].variants)

\* Lines 135-145: the substring comparison of the two lowered names
FuzzyLanguageMatch(burrow_lower, starling_lower) ==
    /\ IsSubstring(burrow_lower, starling_lower)
         \/ IsSubstring(starling_lower, burrow_lower)
    /\ Min(Len(burrow_lower), Len(starling_lower)) >= MinOverlap

\* The function as it would be if the substring comparison ignored strict
MatchNormalized_always_flexible(normalized_burrow, starling_lang, strict) ==
    \/ normalized_burrow = starling_lang
    \/ VariantGroupMatch(STARLING_VARIANTS, normalized_burrow, starling_lang)
    \/ FuzzyLanguageMatch(Lower(normalized_burrow), Lower(starling_lang))

\* Lines 118-147, from normalized_burrow on
MatchNormalized(normalized_burrow, starling_lang, strict) ==
    \/ normalized_burrow = starling_lang
    \/ VariantGroupMatch(STARLING_VARIANTS, normalized_burrow, starling_lang)
    \/ ~strict /\ FuzzyLanguageMatch(Lower(normalized_burrow), Lower(starling_lang))

match_language_variant(burrow_lang, starling_lang, strict) ==
    MatchNormalized(normalize_language(burrow_lang), starling_lang, strict)

(***************************************************************************)
(* Numbers and their decimal text.                                         *)
(***************************************************************************)
Digits == <<"0", "1", "2", "3", "4", "5", "6", "7", "8", "9">>

DigitChars == {Digits[i] : i \in 1..Len(Digits)}

DigitValue(c) == (CHOOSE i \in 1..Len(Digits) : Digits[i] = c) - 1

\* str(n) for an int n >= 0
RECURSIVE IntToStr(_)
IntToStr(n) ==
    IF n < 10 THEN <<Digits[n + 1]>>
    ELSE IntToStr(n \div 10) \o <<Digits[(n % 10) + 1]>>

\* int(s) for a non-empty string of digits
RECURSIVE DigitsToInt(_)
DigitsToInt(s) ==
    IF s = <<>> THEN 0
    ELSE 10 * DigitsToInt(SubSeq(s, 1, Len(s) - 1)) + DigitValue(s[Len(s)])

AllDigits(s) == s # <<>> /\ \A i \in 1..Len(s) : s[i] \in DigitChars

\* Whether float(s) succeeds, for the decimal forms "123" and "123.0"
\* (surrounding whitespace allowed); every other text raises ValueError.
FloatParses(s) ==
    LET t == Strip(s)
        parts == Split(t, ".")
    IN \/ AllDigits(t)
       \/ Len(parts) = 2 /\ AllDigits(parts[1]) /\ (parts[2] = <<>> \/ AllDigits(parts[2]))

\* int(float(s)) for such a text
FloatToInt(s) == DigitsToInt(Split(Strip(s), ".")[1])

(***************************************************************************)
(* burrow_entry_parser.py                                                  *)
(***************************************************************************)
clean_ded_number(ded_str) ==
    IF FloatParses(ded_str) THEN IntToStr(FloatToInt(ded_str)) ELSE Strip(ded_str)

invalid_langs ==
    { <<"V", "o", "c">>, <<"C", "D", "I", "A", "L">>, <<"D", "E", "D">>,
      <<"D", "E", "D", "S">>, <<"T", "u", "r", "n", "e", "r">>, <<"C", "f">>,
      <<"S", "k", "t">> }

\* s.rstrip(".")
RECURSIVE RStripDot(_)
RStripDot(s) ==
    IF s # <<>> /\ s[Len(s)] = "." THEN RStripDot(SubSeq(s, 1, Len(s) - 1)) ELSE s

\* ", ".join(ss)
RECURSIVE JoinComma(_)
JoinComma(ss) ==
    IF ss = <<>> THEN <<>>
    ELSE IF Len(ss) = 1 THEN ss[1]
    ELSE ss[1] \o <<",", " ">> \o JoinComma(Tail(ss))

\* MarkerHeadwords as it would be if the pieces were kept without the filter
MarkerHeadwords_unfiltered(headword_text) ==
    LET pieces == Split(headword_text, ",")
    IN [i \in 1..Len(pieces) |-> Strip(pieces[i])]

\* The headwords of one marker: the bold span split on commas, each piece
\* stripped, kept when longer than one character and not starting with "(".
MarkerHeadwords(headword_text) ==
    LET pieces == Split(headword_text, ",")
        stripped == [i \in 1..Len(pieces) |-> Strip(pieces[i])]
    IN SelectSeq(stripped,
                 LAMBDA hw : hw # <<>> /\ Len(hw) > 1 /\ ~StartsWith(hw, <<"(">>))

\* s[:200]
Truncate(s) == SubSeq(s, 1, Min(Len(s), GlossLimit))

\* One LanguageAttestation per regex match m = [lang, headword_text, gloss]
\* that is not denylisted and keeps a headword; m.gloss is the stripped text
\* of the run that follows the match.
RECURSIVE AttestationsOfMatches(_)
AttestationsOfMatches(ms) ==
    IF ms = <<>> THEN <<>>
    ELSE LET m == Head(ms)
             lang_clean == RStripDot(m.lang)
             headwords == MarkerHeadwords(m.headword_text)
         IN IF lang_clean \in invalid_langs \/ headwords = <<>>
            THEN AttestationsOfMatches(Tail(ms))
            ELSE << [language_abbrev |-> m.lang,
                     language_name |-> normalize_language(m.lang),
                     headwords |-> headwords,
                     gloss |-> Truncate(m.gloss),
                     source_text |-> m.lang \o <<" ">> \o JoinComma(headwords)] >>
                 \o AttestationsOfMatches(Tail(ms))

\* sorted(s) for a set of integers
RECURSIVE Sorted(_)
Sorted(s) ==
    IF s = {} THEN <<>>
    ELSE LET m == CHOOSE x \in s : \A y \in s : x <= y
         IN <<m>> \o Sorted(s \ {m})

\* One regex match of parse_language_sections: the language token, the bold
\* headword span and the text of the gloss run after it
Match(lang, headword_text, gloss) ==
    [lang |-> lang, headword_text |-> headword_text, gloss |-> gloss]

\* entry_html as markup: a sequence of characters in which each of the tags
\* <b>, </b>, <i>, </i> is one element
Tags == {"<b>", "</b>", "<i>", "</i>"}

AsciiUpper == {"A", "B", "C", "D", "E", "F", "G", "H", "I", "J", "K", "L", "M", "N", "O", "P", "Q", "R", "S", "T", "U", "V", "W", "X", "Y", "Z"}

AsciiLower == {"a", "b", "c", "d", "e", "f", "g", "h", "i", "j", "k", "l", "m", "n", "o", "p", "q", "r", "s", "t", "u", "v", "w", "x", "y", "z"}

\* The character class after [A-Z] in all_pattern (line 138), on the
\* characters of the tables
LangTailChars == AsciiLower \cup {"d/dot_below", "t/dot_below", "l/dot_below", "r/macron_below", "a/macron", "A/macron"}

\* [A-Z][class]+\.? matching the whole of s
IsLangToken(s) ==
    /\ Len(s) >= 2
    /\ s[1] \in AsciiUpper
    /\ s[2] \in LangTailChars
    /\ \A i \in 3..(Len(s) - 1) : s[i] \in LangTailChars
    /\ Len(s) >= 3 => s[Len(s)] \in LangTailChars \cup {"."}

\* The position of the first tag of h at or after i, Len(h) + 1 if none
NextTag(h, i) ==
    IF \E j \in i..Len(h) : h[j] \in Tags
    THEN CHOOSE j \in i..Len(h) : h[j] \in Tags /\ \A k \in i..(j - 1) : h[k] \notin Tags
    ELSE Len(h) + 1

\* \s+([^<]+) matching the whole of text: group 2, None if there is no match
HeadwordGroup(text) ==
    IF Len(text) < 2 \/ text[1] \notin Whitespace THEN None
    ELSE IF LStrip(text) = <<>> THEN Some(<<text[Len(text)]>>)
    ELSE Some(LStrip(text))

\* all_pattern matched at position i of h, with </i> at j and </b> at k
PatternBetween(h, i, j, k) ==
    /\ k <= Len(h)
    /\ h[i] = "<b>" /\ h[i + 1] = "<i>" /\ h[j] = "</i>" /\ h[k] = "</b>"
    /\ IsLangToken(SubSeq(h, i + 2, j - 1))
    /\ HeadwordGroup(SubSeq(h, j + 1, k - 1)) # None

\* The position of the </i> and of the </b> that a match at i would end with
LangEnd(h, i) == NextTag(h, i + 2)
SpanEnd(h, i) == NextTag(h, LangEnd(h, i) + 1)

MatchesAt(h, i) == i + 1 <= Len(h) /\ PatternBetween(h, i, LangEnd(h, i), SpanEnd(h, i))

\* re.search(r"<b><i>[A-Z]", h[start_pos:]): a next marker begins at q
MarkerBegins(h, q) ==
    q + 2 <= Len(h) /\ h[q] = "<b>" /\ h[q + 1] = "<i>" /\ h[q + 2] \in AsciiUpper

end_markers == { <<" ", "/", " ">>, <<" ", "D", "E", "D">>, <<" ", "D", "E", "D", "S">>, <<" ", "<i>", "C", "D", "I", "A", "L">> }

\* marker occurs in h at position q
OccursAt(h, marker, q) == q + Len(marker) - 1 <= Len(h) /\ SubSeq(h, q, q + Len(marker) - 1) = marker

\* Lines 159-171: end_pos for a gloss run that starts at start_pos (both
\* counted from 1, end_pos exclusive)
GlossEnd(h, start_pos) ==
    LET stops == IF \E q \in start_pos..Len(h) : MarkerBegins(h, q)
                 THEN {q \in start_pos..Len(h) : MarkerBegins(h, q)}
                 ELSE {q \in start_pos..Len(h) : \E marker \in end_markers : OccursAt(h, marker, q)}
                      \cup {Len(h) + 1}
    IN CHOOSE q \in stops : \A r \in stops : q <= r

\* The text nodes of a piece of markup: what stands between its tags
RECURSIVE TextNodes(_)
TextNodes(g) ==
    IF NextTag(g, 1) > Len(g) THEN <<g>>
    ELSE <<SubSeq(g, 1, NextTag(g, 1) - 1)>> \o TextNodes(SubSeq(g, NextTag(g, 1) + 1, Len(g)))

StripEach(nodes) == [i \in 1..Len(nodes) |-> Strip(nodes[i])]

\* BeautifulSoup(gloss_html).get_text(strip=True): every text node stripped,
\* the empty ones dropped, the rest joined
GetTextStrip(gloss_html) == Concat(StripEach(TextNodes(gloss_html)))

\* The match of all_pattern at position i with the gloss run after it
MarkerMatch(h, i) ==
    Match(SubSeq(h, i + 2, LangEnd(h, i) - 1),
          HeadwordGroup(SubSeq(h, LangEnd(h, i) + 1, SpanEnd(h, i) - 1))[1],
          GetTextStrip(SubSeq(h, SpanEnd(h, i) + 1, GlossEnd(h, SpanEnd(h, i) + 1) - 1)))

MatchesAtAll(h, starts) == [n \in 1..Len(starts) |-> MarkerMatch(h, starts[n])]

\* re.finditer(all_pattern, entry_html) with the gloss of each match: lines
\* 138-175.  A match holds no <b> after its first element, so no two matches
\* overlap and every position where the pattern matches is a match.
FindMarkers(entry_html) ==
    MatchesAtAll(entry_html, Sorted({i \in 1..Len(entry_html) : MatchesAt(entry_html, i)}))

\* parse_language_sections as it would be if it took the first nested div
\* whatever number is asked for
parse_language_sections_first(html_content, ded_number) ==
    IF ~html_content.result_div THEN <<>>
    ELSE IF html_content.blockquote # None
    THEN AttestationsOfMatches(html_content.blockquote[1].matches)
    ELSE IF html_content.nested_divs = <<>> THEN <<>>
    ELSE AttestationsOfMatches(html_content.nested_divs[1].matches)

\* html_content is [result_div, blockquote, nested_divs]: whether a
\* div.hw_result exists, the first blockquote under it (Optional) and its
\* direct child divs; a blockquote or div is [number (Optional), matches].
parse_language_sections(html_content, ded_number) ==
    IF ~html_content.result_div THEN <<>>
    ELSE IF html_content.blockquote # None
    THEN AttestationsOfMatches(html_content.blockquote[1].matches)
    ELSE LET nested_divs == html_content.nested_divs IN
         IF nested_divs = <<>> THEN <<>>
         ELSE IF ded_number # None /\ ded_number[1] # <<>>
         THEN LET clean_ded == clean_ded_number(ded_number[1])
                  hit == {i \in 1..Len(nested_divs) :
                             /\ nested_divs[i].number # None
                             /\ Strip(nested_divs[i].number[1]) = clean_ded}
              IN IF hit = {} THEN <<>>
                 ELSE LET first == CHOOSE i \in hit : \A j \in hit : i <= j
                      IN AttestationsOfMatches(nested_divs[first].matches)
         ELSE AttestationsOfMatches(nested_divs[1].matches)

\* Lines 203-223: whether the loop body returns this attestation
\* Lines 214-223: the comparison of one cleaned headword with the cleaned query
HeadwordAgrees(burrow_clean, starling_headword_clean) ==
    \/ burrow_clean = starling_headword_clean
    \/ IsSubstring(burrow_clean, starling_headword_clean)
    \/ IsSubstring(starling_headword_clean, burrow_clean)

\* Lines 203-205
CleanQuery(starling_headword) ==
    Lower(Strip(Remove(Remove(starling_headword, "*"), "-")))

AttestationMatches(att, starling_language, starling_headword) ==
    /\ match_language_variant(att.language_abbrev, starling_language, FALSE)
    /\ \E h \in 1..Len(att.headwords) :
         HeadwordAgrees(Lower(Strip(att.headwords[h])), CleanQuery(starling_headword))

\* The first element of found (a sequence of Optionals) that is not None:
\* what a loop returns that returns at its first hit, and None after it.
FirstSome(found) ==
    IF \A i \in 1..Len(found) : found[i] = None THEN None
    ELSE found[CHOOSE i \in 1..Len(found) :
                   found[i] # None /\ \A j \in 1..(i - 1) : found[j] = None]

find_matching_attestation(attestations, starling_language, starling_headword) ==
    FirstSome([i \in 1..Len(attestations) |->
                  IF AttestationMatches(attestations[i], starling_language,
                                        starling_headword)
                  THEN Some(attestations[i]) ELSE None])

(***************************************************************************)
(* burrow_enhanced_validation.py: indices and lookups                      *)
(***************************************************************************)
_normalize_headword_for_index(text) ==
    LET base == Lower(Strip(Replace(Replace(Replace(Remove(text, "*"),
                                                    "-", " "), "(", " "), ")", " ")))
        decomposed == NFKD(base)
        filtered == SelectSeq(decomposed, LAMBDA ch : ch \notin CombiningChars)
    IN CollapseWs(filtered)

\* A dict is a sequence of <<key, value>> pairs in insertion order.
HasKey(d, k) == \E i \in 1..Len(d) : d[i][1] = k

\* d.get(k), for a dict whose values are lists: <<>> stands for None too
Get(d, k) ==
    IF HasKey(d, k) THEN d[CHOOSE i \in 1..Len(d) : d[i][1] = k][2] ELSE <<>>

\* d[k] = [x]: the list under k replaced instead of extended
SetDefaultAppend_overwrite(d, k, x) ==
    IF HasKey(d, k)
    THEN [i \in 1..Len(d) |-> IF d[i][1] = k THEN <<k, <<x>>>> ELSE d[i]]
    ELSE Append(d, <<k, <<x>>>>)

\* d.setdefault(k, []).append(x)
SetDefaultAppend(d, k, x) ==
    IF HasKey(d, k)
    THEN [i \in 1..Len(d) |-> IF d[i][1] = k THEN <<k, Append(d[i][2], x)>> ELSE d[i]]
    ELSE Append(d, <<k, <<x>>>>)

AttestationFields ==
    {"language_abbrev", "language_name", "headwords", "gloss", "source_text"}

\* The attestations of one entry of the document: LanguageAttestation(**att_data)
\* raises TypeError for a record with other fields, and the record is skipped.
LoadAttestations(attestations_data) ==
    SelectSeq(attestations_data, LAMBDA att_data : DOMAIN att_data = AttestationFields)

RECURSIVE IndexHeadwords(_, _, _, _)
IndexHeadwords(att_by_head, att, hws, entry) ==
    IF hws = <<>> THEN att_by_head
    ELSE IndexHeadwords(
             SetDefaultAppend(att_by_head, _normalize_headword_for_index(Head(hws)),
                              [attestation |-> att,
                               ded_number |-> entry.ded_number,
                               page |-> entry.page]),
             att, Tail(hws), entry)

RECURSIVE IndexAttestations(_, _, _)
IndexAttestations(att_by_head, atts, entry) ==
    IF atts = <<>> THEN att_by_head
    ELSE IndexAttestations(
             IndexHeadwords(att_by_head, Head(atts), Head(atts).headwords, entry),
             Tail(atts), entry)

\* The two indices after the loop of load_burrow_corpus over doc_entries,
\* started from the pair idx = [by_ded, by_head].
RECURSIVE BuildIndices(_, _)
BuildIndices(idx, doc_entries) ==
    IF doc_entries = <<>> THEN idx
    ELSE LET entry == Head(doc_entries)
             attestations == LoadAttestations(entry.attestations)
             corpus_entry == [page |-> entry.page,
                              ded_number |-> entry.ded_number,
                              attestations |-> attestations]
             by_ded == IF entry.ded_number # None
                       THEN SetDefaultAppend(idx.by_ded, entry.ded_number[1], corpus_entry)
                       ELSE idx.by_ded
             by_head == IndexAttestations(idx.by_head, attestations, corpus_entry)
         IN BuildIndices([by_ded |-> by_ded, by_head |-> by_head], Tail(doc_entries))

\* The outcome of load_burrow_corpus on the document at corpus_path:
\* an exception, or the indices it stores.
load_burrow_corpus(doc) ==
    IF ~doc.exists THEN [raised |-> "FileNotFoundError"]
    ELSE IF ~doc.parseable THEN [raised |-> "JSONDecodeError"]
    ELSE IF ~doc.is_list THEN [raised |-> "ValueError"]
    ELSE [raised |-> "",
          idx |-> BuildIndices([by_ded |-> <<>>, by_head |-> <<>>], doc.entries)]

\* Lines 305-315: the loop of _lookup_in_corpus_by_ded over candidates
FirstInCandidates(candidates, language, headword) ==
    FirstSome([i \in 1..Len(candidates) |->
                  find_matching_attestation(candidates[i].attestations,
                                            language, headword)])

_lookup_in_corpus_by_ded(by_ded, ded_number_str, language, headword) ==
    FirstInCandidates(Get(by_ded, ded_number_str), language, headword)

\* Lines 329-333: the first loop of _lookup_in_corpus_by_headword
ExactLanguageRef(refs, language) ==
    FirstSome([i \in 1..Len(refs) |->
                  IF match_language_variant(refs[i].attestation.language_abbrev,
                                            language, FALSE)
                  THEN Some(refs[i].attestation) ELSE None])

\* Lines 337-343: its second loop
OverlapsLanguage(lang_lower, att_lang_lower) ==
    IsSubstring(lang_lower, att_lang_lower) \/ IsSubstring(att_lang_lower, lang_lower)

FlexibleLanguageRef(refs, language) ==
    FirstSome([i \in 1..Len(refs) |->
                  IF OverlapsLanguage(Lower(language),
                                      Lower(refs[i].attestation.language_name))
                  THEN Some(refs[i].attestation) ELSE None])

\* The lookup as it would be if it read the index under the headword as
\* written, without normalizing it
_lookup_in_corpus_by_headword_raw_key(by_head, language, headword) ==
    FirstSome(<<ExactLanguageRef(Get(by_head, headword), language),
                FlexibleLanguageRef(Get(by_head, headword), language)>>)

_lookup_in_corpus_by_headword(by_head, language, headword) ==
    FirstSome(<<ExactLanguageRef(Get(by_head, _normalize_headword_for_index(headword)),
                                 language),
                FlexibleLanguageRef(Get(by_head, _normalize_headword_for_index(headword)),
                                    language)>>)

\* meaning.lower().split(): the words between runs of whitespace
Words(s) == {w \in Range(Split(CollapseWs(s), " ")) : w # <<>>}

\* All references of the headword index in iteration order of .items()
AllRefs(by_head) == Concat([i \in 1..Len(by_head) |-> by_head[i][2]])

\* The conditions as they would be if a headword that contains the headword
\* of the record were accepted
MeaningAccepts_headword_contained(att, meaning_words, language, hw_normalized) ==
    /\ \E word \in meaning_words :
           Len(word) > MinWordLen /\ IsSubstring(word, Lower(att.gloss))
    /\ match_language_variant(att.language_abbrev, language, FALSE)
    /\ \E h \in 1..Len(att.headwords) :
           IsSubstring(hw_normalized, _normalize_headword_for_index(att.headwords[h]))

\* Lines 366-378: the conditions under which the loop returns att
MeaningAccepts(att, meaning_words, language, hw_normalized) ==
    /\ \E word \in meaning_words :
           Len(word) > MinWordLen /\ IsSubstring(word, Lower(att.gloss))
    /\ match_language_variant(att.language_abbrev, language, FALSE)
    /\ \E h \in 1..Len(att.headwords) :
           hw_normalized = _normalize_headword_for_index(att.headwords[h])

\* Lines 364-380: the loop over the references of the index
FirstByMeaning(refs, meaning_words, language, hw_normalized) ==
    FirstSome([i \in 1..Len(refs) |->
                  IF MeaningAccepts(refs[i].attestation, meaning_words, language,
                                    hw_normalized)
                  THEN Some(refs[i].attestation) ELSE None])

_lookup_in_corpus_by_meaning(by_head, meaning, language, headword) ==
    FirstByMeaning(AllRefs(by_head), Words(Lower(meaning)), language,
                   _normalize_headword_for_index(headword))

(***************************************************************************)
(* burrow_enhanced_validation.py: validate_entry                           *)
(***************************************************************************)
\* A scalar of the "Number in DED" column: [kind, n, s] with kind "nan"
\* (missing), "int", "float" (the integral value n) or "str" (the text s).
_has_scalar_value(value) == value.kind # "nan"

\* str(value)
PyStr(value) ==
    CASE value.kind = "int" -> IntToStr(value.n)
      [] value.kind = "float" -> IntToStr(value.n) \o <<".", "0">>
      [] value.kind = "str" -> value.s
      [] OTHER -> <<"n", "a", "n">>

Note(text) == [text |-> text, headwords |-> <<>>, languages |-> {}]

AttestationDict(att) ==
    [language |-> att.language_name,
     language_abbrev |-> att.language_abbrev,
     headwords |-> att.headwords,
     gloss |-> att.gloss]

\* The assignments made on every match
\* The result of a match as it would be if the attestation were not recorded
Matched_without_attestation(v, att, status, notes) ==
    [v EXCEPT !.burrow_found = TRUE,
              !.burrow_language_matched = TRUE,
              !.burrow_headword_matched = TRUE,
              !.match_status = status,
              !.notes = notes]

Matched(v, att, status, notes) ==
    [v EXCEPT !.burrow_found = TRUE,
                       !.burrow_language_matched = TRUE,
                       !.burrow_headword_matched = TRUE,
                       !.burrow_attestation = Some(AttestationDict(att)),
                       !.match_status = status,
                       !.notes = notes]

\* self.cache is a set of <<ded_number, html>> pairs, one per key.
CacheHas(the_cache, k) == \E e \in the_cache : e[1] = k

CacheGet(the_cache, k) == (CHOOSE e \in the_cache : e[1] = k)[2]

\* What query_ded_entry returns (or "raise"), given the cache and the outcome
\* net_ded of the two requests it would make: [kind, html] with kind "raise",
\* "none" or "html".
query_ded_entry(the_cache, ded_number, net_ded) ==
    IF CacheHas(the_cache, ded_number)
    THEN [kind |-> "html", html |-> CacheGet(the_cache, ded_number)]
    ELSE net_ded

\* self.cache after query_ded_entry
CacheAfterQuery(the_cache, ded_number, net_ded) ==
    IF ~CacheHas(the_cache, ded_number) /\ net_ded.kind = "html"
    THEN the_cache \cup {<<ded_number, net_ded.html>>}
    ELSE the_cache

\* net_meaning is [raises, results]: whether the search raises something
\* other than a RequestException, and the pages of the results otherwise.
_validate_via_meaning(meaning, language, headword, net_meaning) ==
    IF Strip(meaning) = <<>> THEN None
    ELSE FirstSome([i \in 1..Len(net_meaning.results) |->
                       find_matching_attestation(
                           parse_language_sections(net_meaning.results[i], None),
                           language, headword)])

\* Lines 450-478: after find_matching_attestation on the parsed entry
LiveMatchOutcome(v, matching_attestation, lang_matches) ==
    IF matching_attestation # None
    THEN [returned |-> TRUE,
          validation |-> Matched(v, matching_attestation[1], "full_match", v.notes)]
    ELSE [returned |-> FALSE,
          validation |-> [v EXCEPT
              !.burrow_found = TRUE,
              !.match_status = "no_attestation_match",
              !.notes =
                  IF lang_matches # <<>>
                  THEN @ \o <<Note("DED found but form not in entry"),
                              [text |-> "Language present with forms",
                               headwords |-> Concat([i \in 1..Len(lang_matches) |->
                                                        lang_matches[i].headwords]),
                               languages |-> {}]>>
                  ELSE Append(@, Note("DED found but form not in entry"))]]

\* Lines 438-478: after parse_language_sections
LiveParsedOutcome(v, attestations, language, headword) ==
    IF attestations = <<>>
    THEN [returned |-> FALSE,
          validation |-> [v EXCEPT
              !.match_status = "parse_failed",
              !.notes = Append(@, Note("Could not parse Burrow entry"))]]
    ELSE LiveMatchOutcome(v,
             find_matching_attestation(attestations, language, headword),
             SelectSeq(attestations, LAMBDA a :
                 match_language_variant(a.language_abbrev, language, FALSE)))

\* Lines 430-482: after query_ded_entry returned q (or raised)
LiveQueryOutcome(v, q, ded_number_str, language, headword) ==
    IF q.kind = "raise"
    THEN [returned |-> FALSE,
          validation |-> [v EXCEPT
              !.match_status = "error",
              !.notes = Append(@, Note("Error during DED-based lookup"))]]
    ELSE IF q.kind = "none"
    THEN [returned |-> FALSE,
          validation |-> [v EXCEPT
              !.match_status = "ded_not_found",
              !.notes = Append(@, Note("DED not found in Burrow"))]]
    ELSE LiveParsedOutcome(v, parse_language_sections(q.html, Some(ded_number_str)),
                           language, headword)

\* Lines 427-482: the live DED query, when no corpus is loaded.
\* Returns [returned, validation].
LiveDedLookup(v, ded_number_str, language, headword, the_cache, net_ded) ==
    LiveQueryOutcome(v, query_ded_entry(the_cache, ded_number_str, net_ded),
                     ded_number_str, language, headword)

\* Lines 493-510: the notes on the first entry stored under the DED number
EntryDiagnostics(v, attestations, lang_attestations) ==
    IF lang_attestations # <<>>
    THEN [v EXCEPT
             !.match_status = "no_attestation_match",
             !.notes = @ \o <<Note("DED not found in corpus or form not matched"),
                              [text |-> "DED exists in corpus with languages",
                               headwords |-> <<>>,
                               languages |-> {attestations[i].language_abbrev :
                                                 i \in 1..Len(attestations)}],
                              [text |-> "Language found in DED with headwords",
                               headwords |-> Concat([i \in 1..Len(lang_attestations) |->
                                                        lang_attestations[i].headwords]),
                               languages |-> {}]>>,
             !.burrow_language_matched = TRUE,
             !.burrow_found = TRUE]
    ELSE [v EXCEPT
             !.match_status = "no_attestation_match",
             !.notes = @ \o <<Note("DED not found in corpus or form not matched"),
                              [text |-> "DED exists in corpus with languages",
                               headwords |-> <<>>,
                               languages |-> {attestations[i].language_abbrev :
                                                 i \in 1..Len(attestations)}]>>]

\* Lines 491-501: the attestations of that entry and those of the language
FirstEntryDiagnostics(v, attestations, language) ==
    EntryDiagnostics(v, attestations,
        SelectSeq(attestations, LAMBDA att :
            match_language_variant(att.language_abbrev, language, FALSE)))

\* Lines 483-514: the diagnostics when the corpus is loaded and tier 1 failed.
CorpusDiagnostics(v, by_ded, ded_number_str, language) ==
    IF HasKey(by_ded, ded_number_str)
    THEN FirstEntryDiagnostics(v, Get(by_ded, ded_number_str)[1].attestations, language)
    ELSE [v EXCEPT
             !.match_status = "no_attestation_match",
             !.notes = @ \o <<Note("DED not found in corpus or form not matched"),
                              Note("DED not found in corpus")>>]

\* Lines 560-581: after the meaning search; notes_3 are the notes it left
MeaningTier(v, meaning_match, notes_3, meaning) ==
    IF meaning_match # None
    THEN Matched(v, meaning_match[1], "meaning_match",
                 IF v.match_status \notin {"not_validated", "meaning_match"}
                 THEN Append(notes_3, Note("Matched via meaning search"))
                 ELSE notes_3)
    ELSE IF v.match_status = "no_ded_number" /\ meaning # <<>>
    THEN [v EXCEPT !.notes =
             Append(notes_3, Note("Meaning-based search found no matching entry"))]
    ELSE [v EXCEPT !.notes = notes_3]

\* Lines 541-558: the meaning search, in the corpus or live
MeaningSearch(by_head, loaded, meaning, language, headword, net_meaning) ==
    IF meaning = <<>> THEN None
    ELSE IF loaded
    THEN _lookup_in_corpus_by_meaning(by_head, meaning, language, headword)
    ELSE IF net_meaning.raises THEN None
    ELSE _validate_via_meaning(meaning, language, headword, net_meaning)

\* Lines 521-581: after the headword lookup
HeadwordTier(v, corpus_hw_match, by_head, loaded, meaning, language, headword, net_meaning) ==
    IF corpus_hw_match # None
    THEN Matched(v, corpus_hw_match[1], "corpus_headword_match",
                 IF v.match_status \notin {"not_validated", "corpus_headword_match"}
                 THEN Append(v.notes,
                             Note("Matched via local Burrow corpus (headword)"))
                 ELSE v.notes)
    ELSE MeaningTier(v,
             MeaningSearch(by_head, loaded, meaning, language, headword, net_meaning),
             IF meaning # <<>> /\ ~loaded /\ net_meaning.raises
             THEN Append(v.notes, Note("Meaning-based search error"))
             ELSE v.notes,
             meaning)

\* Lines 519-581: the headword tier, the meaning tier and the final return.
LaterTiers(v, by_head, loaded, meaning, language, headword, net_meaning) ==
    HeadwordTier(v, _lookup_in_corpus_by_headword(by_head, language, headword),
                 by_head, loaded, meaning, language, headword, net_meaning)

\* Lines 390-402
NewValidation(r) ==
    [starling_id |-> r.ID,
     starling_headword |-> r.Headword,
     starling_meaning |-> r.Meaning,
     starling_language |-> r.Language,
     starling_ded_number |-> r.NumberInDED,
     burrow_found |-> FALSE,
     burrow_language_matched |-> FALSE,
     burrow_headword_matched |-> FALSE,
     burrow_attestation |-> None,
     match_status |-> "not_validated",
     notes |-> <<>>]

\* Lines 413-514: after _lookup_in_corpus_by_ded.  Returns [returned, validation].
DedOutcome(v, corpus_match, ded_number_str, r, idx, loaded, the_cache, net) ==
    IF corpus_match # None
    THEN [returned |-> TRUE,
          validation |-> Matched(v, corpus_match[1], "full_match",
                                 <<Note("Matched via local Burrow corpus (DED).")>>)]
    ELSE IF ~loaded
    THEN LiveDedLookup(v, ded_number_str, r.Language, r.Headword, the_cache, net.ded)
    ELSE [returned |-> FALSE,
          validation |-> CorpusDiagnostics(v, idx.by_ded, ded_number_str, r.Language)]

\* The DED tier as it would be if a record without a number were left
\* unclassified
DedTier_number_missing_unclassified(v, r, idx, loaded, the_cache, net) ==
    IF _has_scalar_value(r.NumberInDED)
    THEN DedOutcome(v,
             _lookup_in_corpus_by_ded(idx.by_ded, PyStr(r.NumberInDED),
                                      r.Language, r.Headword),
             PyStr(r.NumberInDED), r, idx, loaded, the_cache, net)
    ELSE [returned |-> FALSE, validation |-> v]

\* Lines 404-517: the DED tier.  Returns [returned, validation].
DedTier(v, r, idx, loaded, the_cache, net) ==
    IF _has_scalar_value(r.NumberInDED)
    THEN DedOutcome(v,
             _lookup_in_corpus_by_ded(idx.by_ded, PyStr(r.NumberInDED),
                                      r.Language, r.Headword),
             PyStr(r.NumberInDED), r, idx, loaded, the_cache, net)
    ELSE [returned |-> FALSE,
          validation |-> [v EXCEPT
              !.match_status = "no_ded_number",
              !.notes = <<Note("No DED number in StarlingDB")>>]]

\* The rest of validate_entry after the DED tier
AfterDedTier(t, r, idx, loaded, net) ==
    IF t.returned THEN t.validation
    ELSE LaterTiers(t.validation, idx.by_head, loaded, r.Meaning, r.Language,
                    r.Headword, net.meaning)

\* validate_entry(row) against the indices idx = [by_ded, by_head]; net is
\* [ded, meaning], the outcomes of the requests a live lookup would make.
validate_entry(r, idx, loaded, the_cache, net) ==
    AfterDedTier(DedTier(NewValidation(r), r, idx, loaded, the_cache, net),
                 r, idx, loaded, net)

(***************************************************************************)
(* Inputs of the model: texts, corpus entries, documents and rows.         *)
(***************************************************************************)
s_tonnai_marked == <<"t", "o", "n/macron_below", "n/macron_below", "a", "i">>
s_tonnai_plain == <<"t", "o", "n", "n", "a", "i">>
s_tonnai_capital == <<"T", "o", "n/macron_below", "n/macron_below", "a", "i">>
s_tonnai_starred == <<"*", "t", "o", "n/macron_below", "n/macron_below", "a", "i">>
s_donne == <<"d", "o", "n", "n", "e">>
s_jonne == <<"j", "o", "n", "n", "e">>
s_fake == <<"f", "a", "k", "e">>
s_star == <<"*">>
s_Ta == <<"T", "a", ".">>
s_Ka == <<"K", "a", ".">>
s_Te == <<"T", "e", ".">>
s_Cf == <<"C", "f", ".">>
s_Tamil == <<"T", "a", "m", "i", "l">>
s_Kannada == <<"K", "a", "n", "n", "a", "d", "a">>
s_Telugu == <<"T", "e", "l", "u", "g", "u">>
s_Telugu_K == <<"T", "e", "l", "u", "g", "u", " ", "(", "K", "r", "i", "s", "h", "n", "a", "m", "u", "r", "t", "i", ")">>
s_2913 == <<"2", "9", "1", "3">>
s_02913 == <<"0", "2", "9", "1", "3">>
s_45 == <<"4", "5">>
s_gloss_cup == <<"c", "u", "p", " ", "m", "a", "d", "e", " ", "o", "f", " ", "l", "e", "a", "f">>
s_gloss_leafcup == <<"l", "e", "a", "f", "-", "c", "u", "p">>
s_gloss_leaves == <<"c", "u", "p", " ", "m", "a", "d", "e", " ", "o", "f", " ", "l", "e", "a", "v", "e", "s">>
s_meaning == <<"l", "e", "a", "f", " ", "c", "u", "p">>
s_donne_jonne == <<"d", "o", "n", "n", "e", ",", " ", "j", "o", "n", "n", "e">>
s_paren_only == <<"(", "S", ".", ")", ",", " ", "a">>

Div2913 == [number |-> Some(s_2913),
            matches |-> <<Match(s_Ta, s_tonnai_marked, s_gloss_cup),
                          Match(s_Ka, s_donne_jonne, s_gloss_leafcup)>>]

Div45 == [number |-> Some(s_45),
          matches |-> <<Match(s_Ta, s_tonnai_marked, s_gloss_leafcup)>>]

DivNoNumber == [number |-> None,
                matches |-> <<Match(s_Te, s_donne, s_gloss_leaves)>>]

DivOnlyCf == [number |-> Some(s_45),
              matches |-> <<Match(s_Cf, s_donne, s_gloss_cup),
                            Match(s_Ka, s_paren_only, s_gloss_cup)>>]

Quote2913 == [number |-> Some(s_2913),
              matches |-> <<Match(s_Te, s_donne, s_gloss_leaves)>>]

NestedResult(divs) == [nested_divs |-> divs, blockquote |-> None]

QuoteResult(b) == [nested_divs |-> <<>>, blockquote |-> Some(b)]

\* The hw_result blocks of listing page p (fixed page contents)
PageHtml(p) ==
    CASE p % 3 = 1 -> <<NestedResult(<<Div2913, DivNoNumber>>)>>
      [] p % 3 = 2 -> <<QuoteResult(Quote2913), NestedResult(<<Div45>>)>>
      [] OTHER -> <<NestedResult(<<DivOnlyCf>>)>>

(***************************************************************************)
(* burrow_corpus_scraper.py                                                *)
(***************************************************************************)

\* The arguments of the builder
start_page == 1
end_page == NumPages

\* A file that does not exist; the timestamp of a written file is left out
NoFile ==
    [exists |-> FALSE, parseable |-> FALSE, is_list |-> FALSE,
     start_page |-> 0, end_page |-> 0,
     entries |-> <<>>, completed_pages |-> <<>>, total_entries |-> 0]

\* A file json.load cannot parse
UnparseableFile == [NoFile EXCEPT !.exists = TRUE]

\* A JSON document whose "entries" / "completed_pages" is not a list
NotAListFile == [NoFile EXCEPT !.exists = TRUE, !.parseable = TRUE]

\* _load_existing_corpus as it would be if it never took over the stored entries
_load_existing_corpus_dropped(file, es) == es

\* self.entries after _load_existing_corpus, from the value es it had
_load_existing_corpus(file, es) ==
    IF file.exists /\ file.parseable /\ file.is_list THEN file.entries ELSE es

\* The document _save_corpus writes
_save_corpus(es, completed) ==
    [exists |-> TRUE, parseable |-> TRUE, is_list |-> TRUE,
     start_page |-> start_page, end_page |-> end_page,
     entries |-> es,
     completed_pages |-> Sorted(completed),
     total_entries |-> Len(es)]

\* self.completed_pages after _load_checkpoint, from the value it had
_load_checkpoint(file, completed) ==
    IF file.exists /\ file.parseable /\ file.is_list
    THEN Range(file.completed_pages) ELSE completed

\* The document _save_checkpoint writes
_save_checkpoint(es, completed) ==
    [exists |-> TRUE, parseable |-> TRUE, is_list |-> TRUE,
     start_page |-> start_page, end_page |-> end_page,
     entries |-> <<>>,
     completed_pages |-> Sorted(completed),
     total_entries |-> Len(es)]

\* The entry of one nested div or blockquote b, when it has attestations;
\* wrapped is the hw_result container the code wraps around b.
EntryOf(b, wrapped, p) ==
    LET ded_number == b.number
        attestations == parse_language_sections(wrapped, ded_number)
    IN IF attestations = <<>> THEN <<>>
       ELSE << [page |-> p,
                ded_number |-> ded_number,
                raw_html |-> wrapped,
                attestations |-> attestations] >>

_extract_entries_from_result_div(result_div, p) ==
    IF result_div.nested_divs # <<>>
    THEN Concat([i \in 1..Len(result_div.nested_divs) |->
             EntryOf(result_div.nested_divs[i],
                     [result_div |-> TRUE, blockquote |-> None,
                      nested_divs |-> <<result_div.nested_divs[i]>>], p)])
    ELSE IF result_div.blockquote = None THEN <<>>
    ELSE EntryOf(result_div.blockquote[1],
                 [result_div |-> TRUE, blockquote |-> result_div.blockquote,
                  nested_divs |-> <<>>], p)

\* new_entries of scrape_page: the entries of every hw_result block of the page
NewEntries(results, p) ==
    Concat([i \in 1..Len(results) |-> _extract_entries_from_result_div(results[i], p)])

\* scrape_page as it would be without the test of line 264
AlreadyCompleted_never(p, completed) == FALSE

\* Line 264: whether scrape_page returns at once
AlreadyCompleted(p, completed) == p \in completed

\* scrape_page as it would be with lines 295 and 296 exchanged
PersistOrder_swapped == <<"save_checkpoint", "save_corpus">>

\* Lines 295-296: the order in which scrape_page persists
PersistOrder == <<"save_corpus", "save_checkpoint">>

\* The position after the persist step named step
AfterPersist(step) ==
    LET i == CHOOSE k \in 1..Len(PersistOrder) : PersistOrder[k] = step
    IN IF i < Len(PersistOrder) THEN PersistOrder[i + 1] ELSE "scrape_all"

\* fetch_with_retry as it would be with range(self.max_retries + 1)
RetryLimit_one_more == max_retries + 1

\* Lines 146, 170-171: fetch_with_retry gives up after this many attempts
RetryLimit == max_retries

\* __init__: both load steps, then scrape_all starts its loop
Construct ==
    /\ pc = "start"
    /\ entries' = _load_existing_corpus(corpus_file, <<>>)
    /\ completed_pages' = _load_checkpoint(checkpoint_file, {})
    /\ pc' = "scrape_all"
    /\ page' = start_page
    /\ UNCHANGED <<corpus_file, checkpoint_file, attempt, response, restarts,
                   interrupted_in_page, skipped_pages, failed_pages>>
    /\ UNCHANGED <<engineVars, passVars, call>>

\* scrape_page(page) for a completed page: lines 264-266
SkipPage ==
    /\ pc = "scrape_all"
    /\ page <= end_page
    /\ AlreadyCompleted(page, completed_pages)
    /\ page' = page + 1
    /\ skipped_pages' = skipped_pages \cup {page}
    /\ UNCHANGED <<entries, completed_pages, corpus_file, checkpoint_file, pc,
                   attempt, response, restarts, interrupted_in_page, failed_pages>>
    /\ UNCHANGED <<engineVars, passVars, call>>

\* scrape_page(page) reaches fetch_with_retry: lines 272-273
BeginFetch ==
    /\ pc = "scrape_all"
    /\ page <= end_page
    /\ ~AlreadyCompleted(page, completed_pages)
    /\ pc' = "fetch"
    /\ attempt' = 0
    /\ UNCHANGED <<entries, completed_pages, corpus_file, checkpoint_file, page,
                   response, restarts, interrupted_in_page, skipped_pages, failed_pages>>
    /\ UNCHANGED <<engineVars, passVars, call>>

\* One iteration of the loop of fetch_with_retry: the request succeeds, times
\* out or fails with another RequestException
FetchAttempt ==
    /\ pc = "fetch"
    /\ attempt < RetryLimit
    /\ \E outcome \in {"ok", "timeout", "error"} :
         IF outcome = "ok"
         THEN /\ response' = Some(PageHtml(page))
              /\ pc' = "extract"
              /\ UNCHANGED attempt
         ELSE /\ attempt' = attempt + 1
              /\ UNCHANGED <<response, pc>>
    /\ UNCHANGED <<entries, completed_pages, corpus_file, checkpoint_file, page,
                   restarts, interrupted_in_page, skipped_pages, failed_pages>>
    /\ UNCHANGED <<engineVars, passVars, call>>

\* fetch_with_retry returns None and scrape_page returns: lines 170-171, 274-276
FetchGiveUp ==
    /\ pc = "fetch"
    /\ attempt >= RetryLimit
    /\ pc' = "scrape_all"
    /\ page' = page + 1
    /\ failed_pages' = failed_pages \cup {page}
    /\ UNCHANGED <<entries, completed_pages, corpus_file, checkpoint_file, attempt,
                   response, restarts, interrupted_in_page, skipped_pages>>
    /\ UNCHANGED <<engineVars, passVars, call>>

\* Lines 278-294: parse the page, extend entries, mark the page completed
ExtractPage ==
    /\ pc = "extract"
    /\ entries' = entries \o NewEntries(response[1], page)
    /\ completed_pages' = completed_pages \cup {page}
    /\ pc' = PersistOrder[1]
    /\ UNCHANGED <<corpus_file, checkpoint_file, page, attempt, response, restarts,
                   interrupted_in_page, skipped_pages, failed_pages>>
    /\ UNCHANGED <<engineVars, passVars, call>>

\* What follows the last persist step: scrape_page returns, the loop goes on
PersistDone(step) ==
    IF AfterPersist(step) = "scrape_all"
    THEN page' = page + 1 /\ response' = None
    ELSE UNCHANGED <<page, response>>

\* Line 295
SaveCorpus ==
    /\ pc = "save_corpus"
    /\ corpus_file' = _save_corpus(entries, completed_pages)
    /\ pc' = AfterPersist("save_corpus")
    /\ PersistDone("save_corpus")
    /\ UNCHANGED <<entries, completed_pages, checkpoint_file, attempt, restarts,
                   interrupted_in_page, skipped_pages, failed_pages>>
    /\ UNCHANGED <<engineVars, passVars, call>>

\* Line 296
SaveCheckpoint ==
    /\ pc = "save_checkpoint"
    /\ checkpoint_file' = _save_checkpoint(entries, completed_pages)
    /\ pc' = AfterPersist("save_checkpoint")
    /\ PersistDone("save_checkpoint")
    /\ UNCHANGED <<entries, completed_pages, corpus_file, attempt, restarts,
                   interrupted_in_page, skipped_pages, failed_pages>>
    /\ UNCHANGED <<engineVars, passVars, call>>

\* scrape_all leaves its loop: lines 305-311
FinishScrape ==
    /\ pc = "scrape_all"
    /\ page > end_page
    /\ pc' = "done"
    /\ UNCHANGED <<entries, completed_pages, corpus_file, checkpoint_file, page,
                   attempt, response, restarts, interrupted_in_page, skipped_pages, failed_pages>>
    /\ UNCHANGED <<engineVars, passVars, call>>

\* The process is stopped (or has ended) and the program is started again:
\* memory is lost, the two files stay.
Restart ==
    /\ pc # "start"
    /\ restarts < MaxRestarts
    /\ restarts' = restarts + 1
    /\ interrupted_in_page' =
         (interrupted_in_page \/ pc \in {"fetch", "extract", "save_corpus", "save_checkpoint"})
    /\ pc' = "start"
    /\ entries' = <<>>
    /\ completed_pages' = {}
    /\ page' = start_page
    /\ attempt' = 0
    /\ response' = None
    /\ skipped_pages' = {}
    /\ failed_pages' = {}
    /\ UNCHANGED <<corpus_file, checkpoint_file>>
    /\ UNCHANGED <<engineVars, passVars, call>>

BuilderStep ==
    \/ Construct \/ SkipPage \/ BeginFetch \/ FetchAttempt \/ FetchGiveUp
    \/ ExtractPage \/ SaveCorpus \/ SaveCheckpoint \/ FinishScrape

InitBuilder ==
    /\ entries = <<>>
    /\ completed_pages = {}
    /\ corpus_file \in {NoFile, UnparseableFile, NotAListFile}
    /\ checkpoint_file \in {NoFile, UnparseableFile, NotAListFile}
    /\ pc = "start"
    /\ page = start_page
    /\ attempt = 0
    /\ response = None
    /\ restarts = 0
    /\ interrupted_in_page = FALSE
    /\ skipped_pages = {}
    /\ failed_pages = {}

(***************************************************************************)
(* The workflow on one row: main loads a corpus or not, then validate_entry *)
(***************************************************************************)
\* A corpus document as load_burrow_corpus reads it
Doc(es) == _save_corpus(es, {})

Html(result) == [result_div |-> TRUE, blockquote |-> result.blockquote,
                 nested_divs |-> result.nested_divs]

NoHtml == [result_div |-> FALSE, blockquote |-> None, nested_divs |-> <<>>]

\* An attestation record with a field missing
BadAttestation == [language_abbrev |-> s_Ka, headwords |-> <<s_donne>>]

\* Entries a corpus document may hold: those the builder extracts from the
\* first two pages, an entry without attestations and one with a record
\* LanguageAttestation(**att_data) rejects
EntryPool ==
    Range(NewEntries(PageHtml(1), 1)) \cup Range(NewEntries(PageHtml(2), 2))
    \cup { [page |-> 3, ded_number |-> Some(s_45), raw_html |-> NoHtml,
            attestations |-> <<>>],
           [page |-> 3, ded_number |-> Some(s_2913), raw_html |-> NoHtml,
            attestations |-> <<BadAttestation>>] }

RECURSIVE SeqsUpTo(_, _)
SeqsUpTo(S, n) ==
    IF n = 0 THEN {<<>>}
    ELSE LET shorter == SeqsUpTo(S, n - 1)
         IN shorter \cup {Append(s, x) : s \in shorter, x \in S}

CorpusDocs ==
    {Doc(es) : es \in SeqsUpTo(EntryPool, MaxDocEntries)}
    \cup {NoFile, UnparseableFile, NotAListFile}

NaN == [kind |-> "nan", n |-> 0, s |-> <<>>]
IntNumber(n) == [kind |-> "int", n |-> n, s |-> <<>>]
FloatNumber(n) == [kind |-> "float", n |-> n, s |-> <<>>]
StrNumber(s) == [kind |-> "str", n |-> 0, s |-> s]

Rows ==
    [ID : {<<"1">>},
     Headword : {s_tonnai_marked, s_tonnai_plain, s_tonnai_capital, s_tonnai_starred,
                 s_donne, s_fake, s_star},
     Meaning : {<<>>, s_meaning},
     Language : {s_Tamil, s_Kannada, s_Telugu_K, <<>>},
     NumberInDED : {NaN, IntNumber(2913), FloatNumber(2913), StrNumber(s_02913),
                    IntNumber(45)}]


LivePages == {Html(NestedResult(<<Div45, Div2913>>)), Html(NestedResult(<<DivOnlyCf>>))}

Nets ==
    [ded : {[kind |-> "raise", html |-> NoHtml], [kind |-> "none", html |-> NoHtml]}
           \cup {[kind |-> "html", html |-> h] : h \in LivePages},
     meaning : {[raises |-> TRUE, results |-> <<>>]}
               \cup {[raises |-> FALSE, results |-> rs] :
                        rs \in {<<>>, <<Html(QuoteResult(Quote2913)),
                                       Html(NestedResult(<<Div2913>>))>>}}]

NoNet == [ded |-> [kind |-> "none", html |-> NoHtml],
          meaning |-> [raises |-> FALSE, results |-> <<>>]]

InitEngine ==
    /\ epc = "start"
    /\ corpus_doc = NoFile
    /\ corpus_entries_by_ded = <<>>
    /\ corpus_attestations_by_headword = <<>>
    /\ corpus_loaded = FALSE
    /\ cache = {}
    /\ validation = None
    /\ row = None

\* main with --burrow-corpus: load_burrow_corpus raises or stores the indices
LoadCorpus ==
    /\ epc = "start"
    /\ \E doc \in CorpusDocs :
         LET r == load_burrow_corpus(doc) IN
         /\ corpus_doc' = doc
         /\ IF r.raised # ""
            THEN /\ epc' = "aborted"
                 /\ UNCHANGED <<corpus_entries_by_ded, corpus_attestations_by_headword,
                                corpus_loaded>>
            ELSE /\ epc' = "ready"
                 /\ corpus_entries_by_ded' = r.idx.by_ded
                 /\ corpus_attestations_by_headword' = r.idx.by_head
                 /\ corpus_loaded' = TRUE
    /\ UNCHANGED <<cache, validation, row>>
    /\ UNCHANGED <<builderVars, passVars, call>>

\* main without a corpus
NoCorpus ==
    /\ epc = "start"
    /\ epc' = "ready"
    /\ UNCHANGED <<corpus_doc, corpus_entries_by_ded, corpus_attestations_by_headword,
                   corpus_loaded, cache, validation, row>>
    /\ UNCHANGED <<builderVars, passVars, call>>

Indices == [by_ded |-> corpus_entries_by_ded, by_head |-> corpus_attestations_by_headword]

\* Whether validate_entry reaches query_ded_entry for row r
QueriesDed(r) ==
    /\ _has_scalar_value(r.NumberInDED)
    /\ ~corpus_loaded
    /\ _lookup_in_corpus_by_ded(corpus_entries_by_ded, PyStr(r.NumberInDED),
                                r.Language, r.Headword) = None

ValidateEntry ==
    /\ epc = "ready"
    /\ validation = None
    /\ \E r \in Rows, net \in (IF corpus_loaded THEN {NoNet} ELSE Nets) :
         /\ row' = Some(r)
         /\ validation' = Some(validate_entry(r, Indices, corpus_loaded, cache, net))
         /\ cache' = IF QueriesDed(r)
                     THEN CacheAfterQuery(cache, PyStr(r.NumberInDED), net.ded)
                     ELSE cache
    /\ UNCHANGED <<epc, corpus_doc, corpus_entries_by_ded,
                   corpus_attestations_by_headword, corpus_loaded>>
    /\ UNCHANGED <<builderVars, passVars, call>>

\* The caller takes the result (validate_batch appends it, line 617)
TakeResult ==
    /\ epc = "ready"
    /\ validation # None
    /\ validation' = None
    /\ row' = None
    /\ UNCHANGED <<epc, corpus_doc, corpus_entries_by_ded,
                   corpus_attestations_by_headword, corpus_loaded, cache>>
    /\ UNCHANGED <<builderVars, passVars, call>>

EngineStep == LoadCorpus \/ NoCorpus \/ ValidateEntry \/ TakeResult

(***************************************************************************)
(* validate_all: the pass over the rows of df, in batches, with a          *)
(* checkpoint after every batch                                            *)
(***************************************************************************)
\* Row i (from 0) of the loaded table
DfRow(i) ==
    [ID |-> IntToStr(i + 1),
     Headword |-> CASE i % 3 = 0 -> s_tonnai_marked
                    [] i % 3 = 1 -> s_tonnai_plain
                    [] OTHER -> s_fake,
     Meaning |-> IF i % 2 = 0 THEN s_meaning ELSE <<>>,
     Language |-> IF i % 4 = 3 THEN s_Kannada ELSE s_Tamil,
     NumberInDED |-> CASE i % 4 = 0 -> IntNumber(2913)
                       [] i % 4 = 1 -> NaN
                       [] OTHER -> IntNumber(45)]

total == NumRows
batch_size == BatchSize

\* The corpus the pass runs against
PassCorpus == Doc(NewEntries(PageHtml(1), 1) \o NewEntries(PageHtml(2), 2))

NoCheckpoint == [exists |-> FALSE, processed_count |-> 0, results |-> <<>>]

\* The document save_checkpoint writes
save_checkpoint(results) ==
    [exists |-> TRUE, processed_count |-> Len(results), results |-> results]

\* load_checkpoint: the value of self.validation_results after it (its length
\* is what it returns), from the value results it had
load_checkpoint(file, results) ==
    IF file.exists THEN file.results ELSE results

\* The end of the batch that starts at start
BatchEnd(start) == Min(start + batch_size, total)

\* validate_all as it would be if it kept the loaded results and started
\* over from the first row
FirstBatch_from_zero(results) == 0

\* The start of the first batch: lines 652-654
FirstBatch(results) == Len(results)

\* validate_all begins: load_checkpoint and the start index, lines 649-656
StartValidateAll ==
    /\ wpc = "start"
    /\ validation_results' = load_checkpoint(validation_checkpoint, <<>>)
    /\ batch_start' = FirstBatch(validation_results')
    /\ batch_pos' = 0
    /\ resumed_at' = batch_start'
    /\ wpc' = "batch_loop"
    /\ UNCHANGED <<validation_checkpoint, results_file, wrestarts>>
    /\ UNCHANGED <<builderVars, engineVars, call>>

\* One iteration of the loop over batches begins: lines 668-670
BeginBatch ==
    /\ wpc = "batch_loop"
    /\ batch_start < total
    /\ wpc' = "in_batch"
    /\ batch_pos' = 0
    /\ UNCHANGED <<validation_results, validation_checkpoint, results_file,
                   batch_start, wrestarts, resumed_at>>
    /\ UNCHANGED <<builderVars, engineVars, call>>

\* One iteration of the loop of validate_batch: lines 615-617
ValidateRow ==
    /\ wpc = "in_batch"
    /\ batch_start + batch_pos < BatchEnd(batch_start)
    /\ validation_results' =
         Append(validation_results,
                validate_entry(DfRow(batch_start + batch_pos), Indices,
                               corpus_loaded, cache, NoNet))
    /\ batch_pos' = batch_pos + 1
    /\ UNCHANGED <<wpc, validation_checkpoint, results_file, batch_start, wrestarts, resumed_at>>
    /\ UNCHANGED <<builderVars, engineVars, call>>

\* validate_batch ends with save_checkpoint: line 645
SaveBatchCheckpoint ==
    /\ wpc = "in_batch"
    /\ batch_start + batch_pos >= BatchEnd(batch_start)
    /\ validation_checkpoint' = save_checkpoint(validation_results)
    /\ batch_start' = batch_start + batch_size
    /\ wpc' = "batch_loop"
    /\ UNCHANGED <<validation_results, results_file, batch_pos, wrestarts, resumed_at>>
    /\ UNCHANGED <<builderVars, engineVars, call>>

\* The loop over batches ends and the checkpoint file is removed: lines 678-681
RemoveCheckpoint ==
    /\ wpc = "batch_loop"
    /\ batch_start >= total
    /\ validation_checkpoint' = NoCheckpoint
    /\ wpc' = "save_results"
    /\ UNCHANGED <<validation_results, results_file, batch_start, batch_pos, wrestarts, resumed_at>>
    /\ UNCHANGED <<builderVars, engineVars, call>>

\* save_results, then validate_all returns: line 683
SaveResults ==
    /\ wpc = "save_results"
    /\ results_file' = Some(validation_results)
    /\ wpc' = "returned"
    /\ UNCHANGED <<validation_results, validation_checkpoint, batch_start,
                   batch_pos, wrestarts, resumed_at>>
    /\ UNCHANGED <<builderVars, engineVars, call>>

\* The process is stopped and the program is started again on the same
\* table: memory is lost, the files stay.
RestartWorkflow ==
    /\ wpc \notin {"idle", "start"}
    /\ wrestarts < MaxPassRestarts
    /\ wrestarts' = wrestarts + 1
    /\ wpc' = "start"
    /\ validation_results' = <<>>
    /\ batch_start' = 0
    /\ batch_pos' = 0
    /\ UNCHANGED <<validation_checkpoint, results_file, resumed_at>>
    /\ UNCHANGED <<builderVars, engineVars, call>>

PassStep ==
    \/ StartValidateAll \/ BeginBatch \/ ValidateRow \/ SaveBatchCheckpoint
    \/ RemoveCheckpoint \/ SaveResults

InitPass ==
    /\ wpc = "start"
    /\ validation_results = <<>>
    /\ validation_checkpoint = NoCheckpoint
    /\ results_file = None
    /\ batch_start = 0
    /\ batch_pos = 0
    /\ wrestarts = 0
    /\ resumed_at = 0

(***************************************************************************)
(* Specifications                                                          *)
(***************************************************************************)
\* The builder does not run
IdleBuilder ==
    /\ entries = <<>>
    /\ completed_pages = {}
    /\ corpus_file = NoFile
    /\ checkpoint_file = NoFile
    /\ pc = "idle"
    /\ page = start_page
    /\ attempt = 0
    /\ response = None
    /\ restarts = 0
    /\ interrupted_in_page = FALSE
    /\ skipped_pages = {}
    /\ failed_pages = {}

\* No pass runs
IdlePass ==
    /\ wpc = "idle"
    /\ validation_results = <<>>
    /\ validation_checkpoint = NoCheckpoint
    /\ results_file = None
    /\ batch_start = 0
    /\ batch_pos = 0
    /\ wrestarts = 0
    /\ resumed_at = 0

\* No function has been called on its own
NoCall == call = None

\* The workflow with PassCorpus loaded
LoadedEngine ==
    LET r == load_burrow_corpus(PassCorpus) IN
    /\ epc = "ready"
    /\ corpus_doc = PassCorpus
    /\ corpus_entries_by_ded = r.idx.by_ded
    /\ corpus_attestations_by_headword = r.idx.by_head
    /\ corpus_loaded = TRUE
    /\ cache = {}
    /\ validation = None
    /\ row = None

\* The corpus builder, with interruptions and restarts
BuilderInit == InitBuilder /\ InitEngine /\ IdlePass /\ NoCall

BuilderNext == BuilderStep \/ Restart

SpecBuilder == BuilderInit /\ [][BuilderNext]_vars

\* The steps of the builder other than ExtractPage
ControlStep ==
    \/ Construct \/ SkipPage \/ BeginFetch \/ FetchAttempt \/ FetchGiveUp
    \/ SaveCorpus \/ SaveCheckpoint \/ FinishScrape

\* The corpus builder where a running process goes on: every step that stays
\* enabled is eventually taken.  ExtractPage is enabled exactly while
\* pc = "extract" and each step from there changes pc, so weak fairness of
\* ExtractPage is the last conjunct.
FairBuilder ==
    /\ SpecBuilder
    /\ WF_vars(ControlStep)
    /\ []<>(pc # "extract")

\* validate_entry on every row against every corpus, or live
EngineInit == IdleBuilder /\ InitEngine /\ IdlePass /\ NoCall

SpecEngine == EngineInit /\ [][EngineStep]_vars

\* The resolution pass, with interruptions and restarts
PassInit == IdleBuilder /\ LoadedEngine /\ InitPass /\ NoCall

PassNext == PassStep \/ RestartWorkflow

SpecPass == PassInit /\ [][PassNext]_vars

(***************************************************************************)
(* Functions called on their own, on a loaded corpus or on no state at all  *)
(***************************************************************************)
s_cup == <<"c", "u", "p">>
s_Leaf == <<"L", "e", "a", "f">>
s_donn == <<"d", "o", "n", "n">>

\* The arguments of the calls
CallMeanings == {s_meaning, s_cup, s_Leaf, <<" ">>}
CallLanguages == {s_Tamil, s_Kannada, s_Telugu_K, <<>>}
CallHeadwords == {s_tonnai_marked, s_tonnai_plain, s_tonnai_capital, s_tonnai_starred,
                  s_donne, s_donn, s_fake, s_star}

Called(fn, args, result) == Some([fn |-> fn, args |-> args, result |-> result])

\* workflow._lookup_in_corpus_by_meaning(meaning, language, headword) after
\* load_burrow_corpus
CallLookupByMeaning ==
    /\ call = None
    /\ epc = "ready"
    /\ corpus_loaded
    /\ \E meaning \in CallMeanings, language \in CallLanguages, headword \in CallHeadwords :
         call' = Called("_lookup_in_corpus_by_meaning", <<meaning, language, headword>>,
                        _lookup_in_corpus_by_meaning(corpus_attestations_by_headword,
                                                     meaning, language, headword))
    /\ UNCHANGED <<builderVars, engineVars, passVars>>

\* The designators of burrow_language_mappings.py: the abbreviations (keys of
\* BURROW_TO_STARLING), the canonical names (its values and the keys of
\* STARLING_VARIANTS) and the registered variants
Abbreviations == {BURROW_TO_STARLING[i][1] : i \in 1..Len(BURROW_TO_STARLING)}

CanonicalNames == {BURROW_TO_STARLING[i][2] : i \in 1..Len(BURROW_TO_STARLING)} \cup {STARLING_VARIANTS[g].base : g \in 1..Len(STARLING_VARIANTS)}

RegisteredVariants == UNION {Range(STARLING_VARIANTS[g].variants) : g \in 1..Len(STARLING_VARIANTS)}

Designators == Abbreviations \cup CanonicalNames \cup RegisteredVariants

\* match_language_variant(burrow_lang, starling_lang, strict), a module function
\* that reads no state
CallMatchLanguageVariant ==
    /\ call = None
    /\ epc = "start"
    /\ \E burrow_lang \in Designators, starling_lang \in Designators, strict \in BOOLEAN :
         call' = Called("match_language_variant", <<burrow_lang, starling_lang, strict>>,
                        match_language_variant(burrow_lang, starling_lang, strict))
    /\ UNCHANGED <<builderVars, engineVars, passVars>>

\* The texts given to the normalizer: every string of at most MaxTextLen
\* characters over letters in both cases, a precomposed letter, a combining
\* mark, the characters the normalizer replaces, and two characters with a
\* compatibility decomposition that str.lower() leaves alone: U+211D
\* (double-struck capital R, NFKD "R") and U+2474 (parenthesized digit one,
\* NFKD "(1)")
NormalizerAlphabet == {"t", "T", "n", "n/macron_below", "/macron_below", "*", "-", "(", " ", "U+211D", "U+2474"}

RECURSIVE StringsUpTo(_, _)
StringsUpTo(alphabet, n) ==
    IF n = 0 THEN {<<>>}
    ELSE LET shorter == StringsUpTo(alphabet, n - 1)
         IN shorter \cup {Append(s, c) : s \in shorter, c \in alphabet}

NormalizerInputs == StringsUpTo(NormalizerAlphabet, MaxTextLen)

\* EnhancedValidationWorkflow._normalize_headword_for_index(text), a static
\* method
CallNormalizeHeadword ==
    /\ call = None
    /\ epc = "start"
    /\ \E text \in NormalizerInputs :
         call' = Called("_normalize_headword_for_index", <<text>>,
                        _normalize_headword_for_index(text))
    /\ UNCHANGED <<builderVars, engineVars, passVars>>

\* The fragments given to parse_language_sections: a hw_result block with up
\* to MaxDivs nested divs, or with a blockquote, and the numbers asked for
s_99 == <<"9", "9">>
s_2913_0 == <<"2", "9", "1", "3", ".", "0">>

Div2913Again == [number |-> Some(s_2913), matches |-> <<Match(s_Ka, s_donne, s_gloss_cup)>>]

DivPool == {Div2913, Div45, DivNoNumber, DivOnlyCf, Div2913Again}

Fragments == {Html(NestedResult(divs)) : divs \in SeqsUpTo(DivPool, MaxDivs)} \cup {Html(QuoteResult(Quote2913)), NoHtml}

TargetNumbers == {None, Some(<<>>), Some(s_2913), Some(s_02913), Some(s_2913_0), Some(s_45), Some(s_99)}

\* parser.parse_language_sections(html_content, ded_number)
CallParseLanguageSections ==
    /\ call = None
    /\ epc = "start"
    /\ \E html_content \in Fragments, ded_number \in TargetNumbers :
         call' = Called("parse_language_sections", <<html_content, ded_number>>,
                        parse_language_sections(html_content, ded_number))
    /\ UNCHANGED <<builderVars, engineVars, passVars>>

\* The markers a fragment is written with: the language token in <i>, the
\* headword span in <b> and the gloss run after it.  In the shape
\* "bold_around" the bold span holds the language token too, as in
\* <b><i>Ta.</i> tonnai</b> (sample_html, line 234); in the shape
\* "bold_after" it follows the language token, as in <i>Ka.</i> <b>donne</b>
\* (sample_html, lines 235-244).
s_run_cup == <<" ", "c", "u", "p", " ", "m", "a", "d", "e", " ", "o", "f", " ", "l", "e", "a", "f", ".", " ">>
s_run_leafcup == <<" ", "l", "e", "a", "f", "-", "c", "u", "p", ".", " ">>

Marker(shape, lang, headword_text, gloss) == [shape |-> shape, lang |-> lang, headword_text |-> headword_text, gloss |-> gloss]

MarkerPool ==
    { Marker(shape, s_Ta, s_tonnai_marked, s_run_cup) : shape \in {"bold_around", "bold_after"} }
    \cup { Marker(shape, s_Ka, s_donne_jonne, s_run_leafcup) : shape \in {"bold_around", "bold_after"} }
    \cup { Marker("bold_around", s_Cf, s_donne, s_run_cup), Marker("bold_around", s_Ka, s_paren_only, s_run_cup) }

MarkupOfMarker(m) ==
    IF m.shape = "bold_around"
    THEN <<"<b>", "<i>">> \o m.lang \o <<"</i>", " ">> \o m.headword_text \o <<"</b>">> \o m.gloss
    ELSE <<"<i>">> \o m.lang \o <<"</i>", " ", "<b>">> \o m.headword_text \o <<"</b>">> \o m.gloss

MarkupOf(markers) == Concat([i \in 1..Len(markers) |-> MarkupOfMarker(markers[i])])

\* The hw_result block whose blockquote is written with this markup
BlockOfMarkup(entry_html) == Html(QuoteResult([number |-> None, matches |-> FindMarkers(entry_html)]))

\* parser.parse_language_sections(html_content) on a block written with up
\* to MaxMarkers markers
CallParseMarkup ==
    /\ call = None
    /\ epc = "start"
    /\ \E markers \in SeqsUpTo(MarkerPool, MaxMarkers) :
         call' = Called("parse_language_sections of markup", <<markers>>,
                        parse_language_sections(BlockOfMarkup(MarkupOf(markers)), None))
    /\ UNCHANGED <<builderVars, engineVars, passVars>>

\* load_burrow_corpus, before anything was called
LoadBeforeCalls == NoCall /\ LoadCorpus

CallsNext ==
    \/ LoadBeforeCalls \/ CallLookupByMeaning \/ CallMatchLanguageVariant
    \/ CallNormalizeHeadword \/ CallParseLanguageSections \/ CallParseMarkup

SpecCalls == EngineInit /\ [][CallsNext]_vars

(***************************************************************************)
(* The corpus builder, and the resolution engine started on the corpus     *)
(* file as the builder has left it                                         *)
(***************************************************************************)
\* main with --corpus pointing at the builder's burrow_corpus.json
LoadSavedCorpus ==
    /\ epc = "start"
    /\ corpus_doc' = corpus_file
    /\ LET r == load_burrow_corpus(corpus_file) IN
         IF r.raised # ""
         THEN /\ epc' = "aborted"
              /\ UNCHANGED <<corpus_entries_by_ded, corpus_attestations_by_headword, corpus_loaded>>
         ELSE /\ epc' = "ready"
              /\ corpus_entries_by_ded' = r.idx.by_ded
              /\ corpus_attestations_by_headword' = r.idx.by_head
              /\ corpus_loaded' = TRUE
    /\ UNCHANGED <<cache, validation, row>>
    /\ UNCHANGED <<builderVars, passVars, call>>

RoundTripNext == BuilderStep \/ Restart \/ LoadSavedCorpus

SpecRoundTrip == BuilderInit /\ [][RoundTripNext]_vars

(***************************************************************************)
(* The builder stopped while it writes the corpus file                     *)
(***************************************************************************)
\* _save_corpus cut short: open(corpus_path, "w") has emptied the file and
\* json.dump has written nothing or a prefix of the document when the process
\* stops; what is left is a file json.load cannot parse
InterruptedSaveCorpus ==
    /\ pc = "save_corpus"
    /\ restarts < MaxRestarts
    /\ corpus_file' = UnparseableFile
    /\ restarts' = restarts + 1
    /\ interrupted_in_page' = TRUE
    /\ pc' = "start"
    /\ entries' = <<>>
    /\ completed_pages' = {}
    /\ page' = start_page
    /\ attempt' = 0
    /\ response' = None
    /\ skipped_pages' = {}
    /\ failed_pages' = {}
    /\ UNCHANGED checkpoint_file
    /\ UNCHANGED <<engineVars, passVars, call>>

InterruptedWriteNext == BuilderStep \/ Restart \/ InterruptedSaveCorpus

SpecInterruptedWrite == BuilderInit /\ [][InterruptedWriteNext]_vars

Spec == SpecBuilder

(***************************************************************************)
(* Properties of the corpus builder                                        *)
(***************************************************************************)
\* The pages of the run, in the order of scrape_all
Pages == start_page..end_page

\* The entries an uninterrupted run over the pages extracts, in its order
UninterruptedCorpus ==
    Concat([i \in 1..(end_page - start_page + 1) |->
               NewEntries(PageHtml(start_page + i - 1), start_page + i - 1)])

\* A sequence as a multiset: how often each element occurs
BagOf(s) == [x \in Range(s) |-> Cardinality({i \in 1..Len(s) : s[i] = x})]

\* The completed pages and the entries a persisted file states, nothing for
\* a file that is missing or cannot be read
StoredPages(file) ==
    IF file.exists /\ file.parseable /\ file.is_list
    THEN Range(file.completed_pages) ELSE {}

StoredEntries(file) ==
    IF file.exists /\ file.parseable /\ file.is_list THEN file.entries ELSE <<>>

\* C2: Resumability. When a run that was only ever stopped between two calls
\* of scrape_page (never inside one) has been started again from the
\* persisted files and scrape_all has returned with every page completed,
\* the corpus, in memory and in the corpus file, is equal as a multiset of
\* entries to the corpus of an uninterrupted run over the same pages.
C2_ResumedRunYieldsSameCorpus ==
    (pc = "done" /\ ~interrupted_in_page /\ completed_pages = Pages)
        => /\ BagOf(entries) = BagOf(UninterruptedCorpus)
           /\ BagOf(StoredEntries(corpus_file)) = BagOf(UninterruptedCorpus)

\* A run that was stopped after some but not all pages, started again,
\* skipped the pages it had and completed the others
C2_Witness ==
    /\ pc = "done"
    /\ restarts > 0
    /\ ~interrupted_in_page
    /\ completed_pages = Pages
    /\ skipped_pages # {}
    /\ skipped_pages # Pages
    /\ \E p \in skipped_pages : NewEntries(PageHtml(p), p) # <<>>

\* C3: For a page that is in completed_pages, scrape_page makes no fetch and
\* no parse and leaves entries, completed_pages and both persisted files
\* unchanged: the loop of scrape_all just goes on to the next page.
C3_CompletedPageIsSkipped ==
    [][(pc = "scrape_all" /\ page <= end_page /\ page \in completed_pages
        /\ restarts' = restarts)
       => /\ pc' = "scrape_all"
          /\ page' = page + 1
          /\ UNCHANGED <<entries, completed_pages, corpus_file, checkpoint_file,
                         response, attempt>>]_vars

\* A page that came from the checkpoint file has been skipped
C3_Witness ==
    /\ restarts > 0
    /\ skipped_pages # {}
    /\ skipped_pages \subseteq StoredPages(checkpoint_file)
    /\ pc = "scrape_all"

InvalidDocument(file) == file.exists /\ ~(file.parseable /\ file.is_list)

\* C6: Loading a structurally invalid corpus or checkpoint document fails at
\* load time: the builder is never found scraping (or done) while the corpus
\* file or the checkpoint file it was constructed from is invalid.
C6_InvalidDocumentStopsBuilder ==
    pc \in {"scrape_all", "fetch", "extract", "save_corpus", "save_checkpoint", "done"}
        => ~InvalidDocument(corpus_file) /\ ~InvalidDocument(checkpoint_file)

\* C7: Transport failures never abort a run: fetch_with_retry makes at most
\* max_retries attempts; when all have failed scrape_page returns with the
\* page left out of completed_pages and entries unchanged and scrape_all goes
\* on with the next page; and scrape_all then reaches its end.
C7_TransportFailureNeverAborts ==
    /\ [](attempt <= max_retries)
    /\ [][(pc = "fetch" /\ attempt >= max_retries /\ restarts' = restarts)
          => /\ pc' = "scrape_all"
             /\ page' = page + 1
             /\ page \notin completed_pages'
             /\ entries' = entries]_vars
    /\ [](pc = "fetch" /\ attempt >= max_retries => <>(pc = "done"))

\* An uninterrupted run that gave up on a page, completed a later page and
\* returned
C7_Witness ==
    /\ pc = "done"
    /\ restarts = 0
    /\ \E p \in failed_pages, q \in completed_pages : p < q /\ p \notin completed_pages

\* Whether the state of the builder, in memory or persisted, says anything
\* about page p
PageOnRecord(p) ==
    \/ p \in completed_pages
    \/ p \in StoredPages(checkpoint_file)
    \/ p \in StoredPages(corpus_file)
    \/ \E i \in 1..Len(entries) : entries[i].page = p
    \/ \E i \in 1..Len(StoredEntries(corpus_file)) :
          StoredEntries(corpus_file)[i].page = p

\* C8: A page whose fetch failed on every retry is recorded: after the run
\* the state of the builder, in memory or persisted, holds a record of the
\* page, which it does not for a page that was never attempted.
C8_FailedPageIsRecorded ==
    pc = "done" => \A p \in failed_pages : PageOnRecord(p)

(***************************************************************************)
(* Properties of validate_entry                                            *)
(***************************************************************************)
\* The result validate_entry returned and the record it was called with
Result == validation[1]
Record == row[1]

\* The entries stored under the catalog number of the record
Candidates == Get(corpus_entries_by_ded, PyStr(Record.NumberInDED))

\* validate_entry has returned, in corpus mode, for a record with a number
ReturnedWithNumber ==
    /\ validation # None
    /\ corpus_loaded
    /\ _has_scalar_value(Record.NumberInDED)

\* The language of attestation att matches the language of the record (4.2)
LanguageMatches(att) ==
    match_language_variant(att.language_abbrev, Record.Language, FALSE)

\* Headword h equals, contains or is contained in the headword of the
\* record, both in normalized form (4.1)
HeadwordMatches(h) ==
    LET a == _normalize_headword_for_index(h)
        b == _normalize_headword_for_index(Record.Headword)
    IN a = b \/ IsSubstring(a, b) \/ IsSubstring(b, a)

\* The candidate entries that hold an attestation with a matching language
\* and a matching headword
ResolvingCandidates ==
    {i \in 1..Len(Candidates) :
        \E j \in 1..Len(Candidates[i].attestations) :
            LET att == Candidates[i].attestations[j]
            IN /\ LanguageMatches(att)
               /\ \E h \in 1..Len(att.headwords) : HeadwordMatches(att.headwords[h])}

\* C1: Tier precedence. With a corpus loaded, a record whose catalog number
\* maps to an entry that holds an attestation with a matching language and a
\* matching headword gets the status full_match with an attestation of such
\* an entry, never the status of a later tier or of a non-match.
C1_TierPrecedence ==
    (ReturnedWithNumber /\ ResolvingCandidates # {})
        => /\ Result.match_status = "full_match"
           /\ \E i \in ResolvingCandidates :
                \E j \in 1..Len(Candidates[i].attestations) :
                    Result.burrow_attestation =
                        Some(AttestationDict(Candidates[i].attestations[j]))

\* The statuses of the three resolving tiers
MatchStatuses == {"full_match", "corpus_headword_match", "meaning_match"}

\* C9: Terminal classification by cause. When no tier resolves a record the
\* status is no_ded_number if the record has no catalog number, ded_not_found
\* if its number is not in the catalog index of the corpus, parse_failed if
\* the number is found and has no attestations, and no_attestation_match only
\* if the number is in the corpus with attestations.
C9_TerminalClassificationByCause ==
    (validation # None /\ corpus_loaded /\ Result.match_status \notin MatchStatuses)
        => LET has_ded == _has_scalar_value(Record.NumberInDED)
               found == has_ded /\ HasKey(corpus_entries_by_ded,
                                          PyStr(Record.NumberInDED))
               with_attestations ==
                   found /\ \E i \in 1..Len(Candidates) :
                                Candidates[i].attestations # <<>>
           IN /\ ~has_ded => Result.match_status = "no_ded_number"
              /\ (has_ded /\ ~found) => Result.match_status = "ded_not_found"
              /\ (found /\ ~with_attestations) => Result.match_status = "parse_failed"
              /\ Result.match_status = "no_attestation_match" => with_attestations

\* C10: The catalog-exact tier compares headwords under the normalization
\* that builds the headword index: a record for which a candidate entry has a
\* language-matching attestation with a headword whose normalized form equals
\* the normalized form of the record's headword resolves as full_match.
C10_TierOneUsesIndexNormalization ==
    (/\ ReturnedWithNumber
     /\ \E i \in 1..Len(Candidates) :
          \E j \in 1..Len(Candidates[i].attestations) :
              LET att == Candidates[i].attestations[j]
              IN /\ LanguageMatches(att)
                 /\ \E h \in 1..Len(att.headwords) :
                      _normalize_headword_for_index(att.headwords[h])
                          = _normalize_headword_for_index(Record.Headword))
        => Result.match_status = "full_match"

(***************************************************************************)
(* Properties of the resolution pass                                       *)
(***************************************************************************)
\* C4: When validate_all returns, validation_results holds exactly one
\* result for each record of the input, in input order, none missing and none
\* twice, also when the pass was interrupted and resumed from the checkpoint.
C4_OneResultPerRecord ==
    wpc = "returned"
        => /\ Len(validation_results) = total
           /\ \A i \in 1..total :
                /\ validation_results[i].starling_id = DfRow(i - 1).ID
                /\ validation_results[i] =
                       validate_entry(DfRow(i - 1), Indices, corpus_loaded, cache, NoNet)

\* A pass that was interrupted, resumed from a checkpoint that held the
\* results of some but not all records, and returned
C4_Witness ==
    /\ wpc = "returned"
    /\ wrestarts > 0
    /\ resumed_at > 0
    /\ resumed_at < total

\* The references the headword index holds under the normalized form of the
\* headword of the record
RecordRefs ==
    Get(corpus_attestations_by_headword, _normalize_headword_for_index(Record.Headword))

\* C11: Headword-index tier. Every attestation returned with status
\* corpus_headword_match is stored in the index under the normalized form of
\* the record's headword, its language canonically matches the language of
\* the record (match_language_variant is true), and it is the first such
\* attestation in index order.
C11_HeadwordTierCanonicalLanguage ==
    (validation # None /\ Result.match_status = "corpus_headword_match")
        => \E i \in 1..Len(RecordRefs) :
              /\ Result.burrow_attestation =
                     Some(AttestationDict(RecordRefs[i].attestation))
              /\ LanguageMatches(RecordRefs[i].attestation)
              /\ \A j \in 1..(i - 1) : ~LanguageMatches(RecordRefs[j].attestation)

(***************************************************************************)
(* Properties of the functions called on their own                         *)
(***************************************************************************)
\* The last call was a call of fn
LastCall(fn) == call # None /\ call[1].fn = fn

\* The words of s: the maximal runs of characters that are not whitespace
WordsOf(s) ==
    {SubSeq(s, p[1], p[2]) :
        p \in {q \in (1..Len(s)) \X (1..Len(s)) :
                  /\ q[1] <= q[2]
                  /\ \A k \in q[1]..q[2] : s[k] \notin Whitespace
                  /\ (q[1] = 1 \/ s[q[1] - 1] \in Whitespace)
                  /\ (q[2] = Len(s) \/ s[q[2] + 1] \in Whitespace)}}

\* C12: Meaning-search tier. Every attestation the corpus meaning search
\* returns has a gloss that contains a word of the record's meaning longer
\* than 3 characters, a language that matches the record's language, and a
\* headword whose normalized form equals the normalized headword of the
\* record.
C12_MeaningSearchAccepts ==
    (LastCall("_lookup_in_corpus_by_meaning") /\ call[1].result # None)
        => LET att == call[1].result[1]
               meaning == call[1].args[1]
               language == call[1].args[2]
               headword == call[1].args[3]
           IN /\ \E w \in WordsOf(Lower(meaning)) :
                    Len(w) > 3 /\ IsSubstring(w, Lower(att.gloss))
              /\ match_language_variant(att.language_abbrev, language, FALSE)
              /\ \E h \in 1..Len(att.headwords) :
                    _normalize_headword_for_index(att.headwords[h])
                        = _normalize_headword_for_index(headword)

\* The search returned an attestation for a meaning with a short and a long
\* word and a headword that differs from the stored one before normalization
C12_Witness ==
    /\ LastCall("_lookup_in_corpus_by_meaning")
    /\ call[1].result # None
    /\ call[1].args[1] = s_meaning
    /\ call[1].args[3] \notin Range(call[1].result[1].headwords)

\* The attestations of the candidate entries whose language matches the
\* language of the record
LanguageCandidates ==
    {att \in UNION {Range(Candidates[i].attestations) : i \in 1..Len(Candidates)} :
        LanguageMatches(att)}

\* The notes of the result that list headwords
HeadwordNotes == {n \in Range(Result.notes) : n.headwords # <<>>}

\* C13: Diagnostic tier. Whenever the catalog-exact tier fails for a record
\* and any candidate entry stored under the record's catalog number holds an
\* attestation whose language matches the record's language, the notes of the
\* result hold a note that lists headwords available for that language; and
\* the status is a match only if the headword tier or the meaning tier found
\* an attestation.
C13_DiagnosticNoteListsHeadwords ==
    (ReturnedWithNumber /\ Result.match_status # "full_match" /\ LanguageCandidates # {})
        => /\ \E n \in HeadwordNotes :
                 Range(n.headwords)
                     \subseteq UNION {Range(att.headwords) : att \in LanguageCandidates}
           /\ Result.match_status \in MatchStatuses
                 => \/ _lookup_in_corpus_by_headword(corpus_attestations_by_headword,
                           Record.Language, Record.Headword) # None
                    \/ _lookup_in_corpus_by_meaning(corpus_attestations_by_headword,
                           Record.Meaning, Record.Language, Record.Headword) # None


FullNames == CanonicalNames \cup RegisteredVariants

Precomposed == {"e/grave_accent", "A/macron", "a/macron", "o/macron", "d/dot_below", "l/dot_below", "n/macron_below", "r/macron_below", "t/dot_below"}

PlainLetter(c) == IF LowerChar(c) \in Precomposed THEN NFKDChar(LowerChar(c))[1] ELSE LowerChar(c)

PlainLetters(s) == [i \in 1..Len(s) |-> PlainLetter(s[i])]

Unmarked(s) == SelectSeq(s, LAMBDA ch : ch \notin CombiningChars)

DifferOnlyInCaseAndMarks(x, y) == PlainLetters(Unmarked(x)) = PlainLetters(Unmarked(y))

\* C15: the headword normalizer is idempotent and diacritic-insensitive: for
\* every text x, normalize(normalize(x)) equals normalize(x), and every text
\* that differs from x only in letter case and combining diacritics has the
\* same normalized form as x.
C15_NormalizerIdempotentAndInsensitive ==
    LastCall("_normalize_headword_for_index")
        => /\ _normalize_headword_for_index(call[1].result) = call[1].result
           /\ \A y \in NormalizerInputs :
                DifferOnlyInCaseAndMarks(call[1].args[1], y)
                    => _normalize_headword_for_index(y) = call[1].result


\* The references the by-headword index holds under a key
IndexedUnder(key) == Range(Get(corpus_attestations_by_headword, key))

\* C16: after load_burrow_corpus, for every entry of the corpus document,
\* every attestation of that entry and every headword h of that attestation,
\* the by-headword index holds under the key normalize(h) a reference to that
\* attestation (with the entry's number and page), whatever other
\* attestations are kept under the same key.
C16_IndexCompleteness ==
    corpus_loaded
        => \A e \in 1..Len(corpus_doc.entries) :
             \A a \in 1..Len(corpus_doc.entries[e].attestations) :
                \A h \in 1..Len(corpus_doc.entries[e].attestations[a].headwords) :
                   [attestation |-> corpus_doc.entries[e].attestations[a],
                    ded_number |-> corpus_doc.entries[e].ded_number,
                    page |-> corpus_doc.entries[e].page]
                       \in IndexedUnder(_normalize_headword_for_index(corpus_doc.entries[e].attestations[a].headwords[h]))


(***************************************************************************)
(* The corpus document written and read back                               *)
(***************************************************************************)
\* What load_burrow_corpus makes of one entry of the document (lines 145-161)
AsLoaded(e) == [page |-> e.page, ded_number |-> e.ded_number, attestations |-> e.attestations]

\* The entries the engine holds after the load
EntriesReadBack == UNION {Range(corpus_entries_by_ded[i][2]) : i \in 1..Len(corpus_entries_by_ded)}

\* A builder just constructed on a corpus file it can read
ConstructedOnReadableFile ==
    /\ pc = "scrape_all"
    /\ page = start_page
    /\ corpus_file.exists /\ corpus_file.parseable /\ corpus_file.is_list

\* C17: the corpus document round-trips: a restarted builder holds the
\* entries of the file as they were written, and after load_burrow_corpus
\* every entry of the document is among the entries the engine holds, with
\* the same page, catalog number and attestations, field for field and in
\* the same order.
C17_CorpusRoundTrip ==
    /\ ConstructedOnReadableFile => entries = corpus_file.entries
    /\ corpus_loaded
         => \A e \in 1..Len(corpus_doc.entries) : AsLoaded(corpus_doc.entries[e]) \in EntriesReadBack

\* The entries of the document with the catalog number k, as loaded, in the
\* order of the document
NumberedAs(doc_entries, k) ==
    LET numbered == SelectSeq(doc_entries, LAMBDA e : e.ded_number = Some(k))
    IN [i \in 1..Len(numbered) |-> AsLoaded(numbered[i])]

\* C17, with the entries that carry no catalog number: a restarted builder
\* holds the entries of the file as they were written; after
\* load_burrow_corpus the engine holds under every catalog number of the
\* document exactly the document's entries with that number, in the
\* document's order and with the same page and attestations; of an entry
\* without number it holds no entry, but every attestation, with the entry's
\* page, under each of its normalized headwords.
C17_RoundTripOfNumberedEntries ==
    /\ ConstructedOnReadableFile => entries = corpus_file.entries
    /\ corpus_loaded
         => \A e \in 1..Len(corpus_doc.entries) :
              /\ corpus_doc.entries[e].ded_number # None
                   => Get(corpus_entries_by_ded, corpus_doc.entries[e].ded_number[1])
                        = NumberedAs(corpus_doc.entries, corpus_doc.entries[e].ded_number[1])
              /\ \A a \in 1..Len(corpus_doc.entries[e].attestations) :
                   \A h \in 1..Len(corpus_doc.entries[e].attestations[a].headwords) :
                      \E ref \in Range(Get(corpus_attestations_by_headword, _normalize_headword_for_index(corpus_doc.entries[e].attestations[a].headwords[h]))) :
                         /\ ref.attestation = corpus_doc.entries[e].attestations[a]
                         /\ ref.page = corpus_doc.entries[e].page
                         /\ ref.ded_number = corpus_doc.entries[e].ded_number

\* The engine has loaded a document of the builder in which two entries
\* share a catalog number and one entry has none
C17_Witness ==
    /\ corpus_loaded
    /\ \E e \in 1..Len(corpus_doc.entries) : corpus_doc.entries[e].ded_number = None
    /\ \E e, f \in 1..Len(corpus_doc.entries) :
         /\ e < f
         /\ corpus_doc.entries[e].ded_number # None
         /\ corpus_doc.entries[e].ded_number = corpus_doc.entries[f].ded_number


\* C18: every result returned by validate_entry, whichever tier or terminal
\* classification produced it and whether the lookup ran against the local
\* corpus or the live source, carries at least one note.
C18_EveryResultCarriesANote ==
    validation # None => Result.notes # <<>>


(***************************************************************************)
(* The parser called on fragments                                          *)
(***************************************************************************)
\* The attestations that come from nested div d
ComesFrom(d) == Range(AttestationsOfMatches(d.matches))

\* The number of nested div d is the cleaned target number
HasCleanedNumber(d, target) == d.number # None /\ Strip(d.number[1]) = clean_ded_number(target)

\* A target number is supplied: neither None nor the empty text
Supplied(ded_number) == ded_number # None /\ ded_number[1] # <<>>

\* C19: when a fragment holds several nested sub-fragments and a target
\* catalog number is supplied, every attestation returned by
\* parse_language_sections comes from the sub-fragment whose number equals
\* the cleaned target number, and from no sub-fragment with another number;
\* when no target is supplied, the attestations returned are those of the
\* first sub-fragment.
C19_SubFragmentSelection ==
    (LastCall("parse_language_sections") /\ call[1].args[1].blockquote = None /\ Len(call[1].args[1].nested_divs) > 1)
        => IF Supplied(call[1].args[2])
           THEN /\ call[1].result # <<>>
                     => \E i \in 1..Len(call[1].args[1].nested_divs) :
                           /\ HasCleanedNumber(call[1].args[1].nested_divs[i], call[1].args[2][1])
                           /\ call[1].result = AttestationsOfMatches(call[1].args[1].nested_divs[i].matches)
                /\ \A a \in Range(call[1].result) :
                      \A j \in 1..Len(call[1].args[1].nested_divs) :
                         ~HasCleanedNumber(call[1].args[1].nested_divs[j], call[1].args[2][1])
                             => a \notin ComesFrom(call[1].args[1].nested_divs[j])
           ELSE call[1].result = AttestationsOfMatches(call[1].args[1].nested_divs[1].matches)

\* A number written with a leading zero was asked for, the sub-fragment with
\* that number is not the first one, and its attestations were returned
C19_Witness ==
    /\ LastCall("parse_language_sections")
    /\ call[1].args[2] = Some(s_02913)
    /\ Len(call[1].args[1].nested_divs) > 1
    /\ ~HasCleanedNumber(call[1].args[1].nested_divs[1], s_02913)
    /\ call[1].result # <<>>


\* The marker is not denylisted and keeps a headword
Extractable(m) == RStripDot(m.lang) \notin invalid_langs /\ MarkerHeadwords(m.headword_text) # <<>>

\* The attestations are those of the markers, one for one and in order, each
\* with a gloss
OneForOne(attestations, markers) ==
    /\ Len(attestations) = Len(markers)
    /\ \A i \in 1..Len(markers) :
          /\ attestations[i].language_abbrev = markers[i].lang
          /\ attestations[i].headwords = MarkerHeadwords(markers[i].headword_text)
          /\ attestations[i].gloss # <<>>

\* C20: for a fragment that contains n language markers of the shape
\* emphasised language token followed by a bold headword span, as in
\* <i>Ta.</i> <b>tonnai</b> cup. <i>Ka.</i> <b>donne</b> leaf-cup., none
\* denylisted and each with a surviving headword, parse_language_sections
\* returns exactly n attestations in document order, each with that marker's
\* headwords and a non-empty gloss.
C20_MarkerExtraction ==
    (LastCall("parse_language_sections of markup")
       /\ \A i \in 1..Len(call[1].args[1]) :
             call[1].args[1][i].shape = "bold_after" /\ Extractable(call[1].args[1][i]))
        => OneForOne(call[1].result, call[1].args[1])


(***************************************************************************)
(* What the parser keeps and what the builder appends                      *)
(***************************************************************************)
\* An attestation as parse_language_sections keeps it: at least one headword,
\* each headword longer than one character and not opening with "(", and a
\* language token that is not on the denylist once its dots are stripped
KeptAttestation(a) ==
    /\ a.headwords # <<>>
    /\ \A i \in 1..Len(a.headwords) : Len(a.headwords[i]) > 1 /\ a.headwords[i][1] # "("
    /\ RStripDot(a.language_abbrev) \notin invalid_langs

\* C21: every attestation returned by parse_language_sections has a non-empty
\* headword list, each headword is longer than one character and does not
\* begin with "(", and its language token is not on the denylist; every Entry
\* the builder appends has at least one attestation.
C21_KeptAttestationsAndEntries ==
    \A i \in 1..Len(entries) :
        /\ entries[i].attestations # <<>>
        /\ \A j \in 1..Len(entries[i].attestations) : KeptAttestation(entries[i].attestations[j])

\* The page whose only block has a denylisted marker and a marker with no
\* usable headword was extracted and left no entry, next to pages that did
C21_Witness ==
    /\ 3 \in completed_pages
    /\ entries # <<>>
    /\ \A i \in 1..Len(entries) : entries[i].page # 3
    /\ \E i \in 1..Len(entries) : \E j \in 1..Len(entries[i].attestations) : Len(entries[i].attestations[j].headwords) = 2


(***************************************************************************)
(* The two modes of the language matcher                                   *)
(***************************************************************************)
\* The variant table relates names n and s: base and variant, variant and
\* base, or two variants of one base
VariantTableRelates(n, s) ==
    \E g \in 1..Len(STARLING_VARIANTS) :
       \/ n = STARLING_VARIANTS[g].base /\ s \in Range(STARLING_VARIANTS[g].variants)
       \/ n \in Range(STARLING_VARIANTS[g].variants) /\ s = STARLING_VARIANTS[g].base
       \/ n \in Range(STARLING_VARIANTS[g].variants) /\ s \in Range(STARLING_VARIANTS[g].variants)

\* The strict condition: the canonical form of the first designator equals
\* the second, or the variant table relates them
StrictlyMatches(first, second) ==
    normalize_language(first) = second \/ VariantTableRelates(normalize_language(first), second)

\* One of the texts x and y, lower-cased, is a substring of the other and the
\* shorter one has at least four characters
OverlapsByFour(x, y) ==
    /\ IsSubstring(Lower(x), Lower(y)) \/ IsSubstring(Lower(y), Lower(x))
    /\ Len(x) >= 4 /\ Len(y) >= 4

\* C22 as stated: match_language_variant in strict mode is true only when the
\* canonical form of the first designator equals the second or the variant
\* table relates them; in non-strict mode it is additionally true exactly
\* when one lower-cased designator is a substring of the other and the
\* shorter has at least four characters.
C22_MatchLanguageVariantModes ==
    LastCall("match_language_variant")
        => IF call[1].args[3]
           THEN call[1].result => StrictlyMatches(call[1].args[1], call[1].args[2])
           ELSE call[1].result <=> \/ StrictlyMatches(call[1].args[1], call[1].args[2])
                                   \/ OverlapsByFour(call[1].args[1], call[1].args[2])

\* C22, amended: the substring comparison of the non-strict mode is between
\* the lower-cased canonical form of the first designator and the lower-cased
\* second designator; a strict match is a non-strict match.
C22_FlexibleOverCanonicalForm ==
    LastCall("match_language_variant")
        => /\ IF call[1].args[3]
              THEN call[1].result <=> StrictlyMatches(call[1].args[1], call[1].args[2])
              ELSE call[1].result <=> \/ StrictlyMatches(call[1].args[1], call[1].args[2])
                                      \/ OverlapsByFour(normalize_language(call[1].args[1]), call[1].args[2])
           /\ (call[1].args[3] /\ call[1].result)
                 => match_language_variant(call[1].args[1], call[1].args[2], FALSE)

\* A non-strict call on an abbreviation matched a name that the strict
\* condition does not relate to it and that does not overlap the abbreviation
C22_Witness ==
    /\ LastCall("match_language_variant")
    /\ ~call[1].args[3]
    /\ call[1].result
    /\ call[1].args[1] \in Abbreviations
    /\ ~StrictlyMatches(call[1].args[1], call[1].args[2])
    /\ ~OverlapsByFour(call[1].args[1], call[1].args[2])


(***************************************************************************)
(* Interruptions inside scrape_page                                        *)
(***************************************************************************)
\* How many entries of sequence es come from page p
EntriesOfPage(es, p) == Cardinality({i \in 1..Len(es) : es[i].page = p})

\* C23: no page's entries are ever stored twice: wherever inside scrape_page
\* a run is interrupted, in particular after _save_corpus wrote the page's
\* entries and before _save_checkpoint recorded the page, after a restart and
\* scrape_all the corpus, in memory and in the corpus file, holds each page's
\* entries exactly once.
C23_NoPageStoredTwice ==
    /\ \A p \in Pages :
          /\ EntriesOfPage(entries, p) <= Len(NewEntries(PageHtml(p), p))
          /\ EntriesOfPage(StoredEntries(corpus_file), p) <= Len(NewEntries(PageHtml(p), p))
    /\ (pc = "done" /\ completed_pages = Pages)
          => /\ BagOf(entries) = BagOf(UninterruptedCorpus)
             /\ BagOf(StoredEntries(corpus_file)) = BagOf(UninterruptedCorpus)


(***************************************************************************)
(* Completed pages and the entries in memory after a restart               *)
(***************************************************************************)
\* C24: once the builder is constructed from the persisted files, every page
\* in completed_pages has its entries in the in-memory entries, also when the
\* corpus file is missing, unreadable or cut short by an interrupted write
\* while the checkpoint file is intact; a page that is skipped is never one
\* whose entries are lost.
C24_CompletedPagesHaveTheirEntries ==
    pc # "start"
        => /\ \A p \in completed_pages :
                 EntriesOfPage(entries, p) >= Len(NewEntries(PageHtml(p), p))
           /\ \A p \in skipped_pages :
                 EntriesOfPage(entries, p) >= Len(NewEntries(PageHtml(p), p))


(***************************************************************************)
(* The meaning search behind the headword index                            *)
(***************************************************************************)
\* What the two corpus lookups return for the record
ByMeaning == _lookup_in_corpus_by_meaning(corpus_attestations_by_headword, Record.Meaning, Record.Language, Record.Headword)

ByHeadword == _lookup_in_corpus_by_headword(corpus_attestations_by_headword, Record.Language, Record.Headword)

\* C25: with a corpus loaded the meaning search is subsumed by the lookup in
\* the headword index: whenever _lookup_in_corpus_by_meaning would return an
\* attestation for a record, _lookup_in_corpus_by_headword returns one, so
\* validate_entry never returns meaning_match in corpus mode.
C25_MeaningSearchSubsumed ==
    (validation # None /\ corpus_loaded)
        => /\ ByMeaning # None => ByHeadword # None
           /\ Result.match_status # "meaning_match"

\* A record that the meaning search would resolve, written with a star the
\* index key does not have, was resolved before the meaning search
C25_Witness ==
    /\ validation # None
    /\ corpus_loaded
    /\ ByMeaning # None
    /\ Record.Headword = s_tonnai_starred
    /\ Result.match_status \in {"full_match", "corpus_headword_match"}


(***************************************************************************)
(* Where the results of finished batches are kept                          *)
(***************************************************************************)
\* The i-th result is in the checkpoint file or in the saved results
DurablyStored(i) ==
    \/ validation_checkpoint.exists /\ i <= Len(validation_checkpoint.results)
    \/ results_file # None /\ i <= Len(results_file[1])

\* C26: during validate_all, once a batch has been checkpointed, the results
\* processed up to that checkpoint are durably stored at every later point of
\* the pass, in the checkpoint file or in the saved results, the interval
\* between the removal of the checkpoint file and the completion of
\* save_results included.
C26_CheckpointedResultsStayStored ==
    wpc \in {"batch_loop", "in_batch", "save_results", "returned"}
        => \A i \in 1..Min(batch_start, total) : DurablyStored(i)


(***************************************************************************)
(* The key of the number index at query time                               *)
(***************************************************************************)
\* The entries indexed under the number the record's "Number in DED" denotes:
\* the key is the decimal text of that number, as clean_ded_number gives it
IndexedUnderDenotedNumber == Get(corpus_entries_by_ded, clean_ded_number(PyStr(Record.NumberInDED)))

\* C27: the catalog-exact tier uses at query time the key form of index-build
\* time: for every record whose "Number in DED" denotes n, whatever its
\* representation (the integer 2913, the float 2913.0, the zero-padded text
\* "02913"), _lookup_in_corpus_by_ded inspects exactly the entries indexed
\* under n, so the record is a full_match exactly when one of those entries
\* has a matching attestation.
C27_QueryKeyIsIndexKey ==
    (validation # None /\ corpus_loaded /\ _has_scalar_value(Record.NumberInDED))
        => /\ Candidates = IndexedUnderDenotedNumber
           /\ Result.match_status = "full_match"
                 <=> FirstInCandidates(IndexedUnderDenotedNumber, Record.Language, Record.Headword) # None


(***************************************************************************)
(* The statuses validate_entry returns                                     *)
(***************************************************************************)
ReturnedStatuses == {"full_match", "corpus_headword_match", "meaning_match", "no_attestation_match", "ded_not_found", "parse_failed", "no_ded_number", "error"}

\* C28: validate_entry always returns a status among full_match,
\* corpus_headword_match, meaning_match, no_attestation_match, ded_not_found,
\* parse_failed, no_ded_number and error; the initial not_validated is never
\* returned, with a corpus loaded or without.
C28_StatusIsClassified ==
    validation # None
        => Result.match_status \in ReturnedStatuses /\ Result.match_status # "not_validated"

\* A record without a number went through every tier of the live mode, the
\* meaning search included, and none resolved it
C28_Witness ==
    /\ validation # None
    /\ ~corpus_loaded
    /\ ~_has_scalar_value(Record.NumberInDED)
    /\ Record.Meaning # <<>>
    /\ Result.match_status = "no_ded_number"


(***************************************************************************)
(* The attestation and the three flags of a result                         *)
(***************************************************************************)
\* C29: in every result burrow_attestation is non-null exactly when the
\* status is full_match, corpus_headword_match or meaning_match, and exactly
\* in those results burrow_found, burrow_language_matched and
\* burrow_headword_matched are all true; in every other result
\* burrow_headword_matched is false.
C29_AttestationAndFlagsFollowStatus ==
    validation # None
        => /\ Result.burrow_attestation # None <=> Result.match_status \in MatchStatuses
           /\ (Result.burrow_found /\ Result.burrow_language_matched /\ Result.burrow_headword_matched)
                 <=> Result.match_status \in MatchStatuses
           /\ Result.match_status \notin MatchStatuses => ~Result.burrow_headword_matched

\* An unresolved result for which the diagnostics found the entry and the
\* language: two flags are set, the headword flag and the attestation are not
C29_Witness ==
    /\ validation # None
    /\ corpus_loaded
    /\ Result.match_status = "no_attestation_match"
    /\ Result.burrow_found
    /\ Result.burrow_language_matched
    /\ ~Result.burrow_headword_matched
    /\ Result.burrow_attestation = None


(***************************************************************************)
(* A headword that is empty after cleaning                                 *)
(***************************************************************************)
\* C30: a record whose headword is empty once its stars and hyphens are
\* removed and it is stripped ("", "*", "-") is never resolved as full_match:
\* find_matching_attestation returns an attestation only when the cleaned
\* headword is non-empty and equals, contains or is contained in one of the
\* attestation's headwords.
C30_EmptyHeadwordNeverFullMatch ==
    (validation # None /\ CleanQuery(Record.Headword) = <<>>)
        => Result.match_status # "full_match"

=============================================================================
